---- MODULE Spec2Model ----
(***************************************************************************)
(* Asynchronous job orchestration of the dataroom application: the upload  *)
(* notification debouncer (upload route, delayed notification task), the   *)
(* download job store and its read paths, the download-batch processor     *)
(* and the export modal of the client.                                     *)
(*                                                                         *)
(* Time is counted in steps of 30 seconds.                                 *)
(***************************************************************************)
EXTENDS Integers, Sequences, FiniteSets, TLC

\* ------------------------------------------------------------------ bounds
MaxUploads == 3
\* the longest gap between two uploads of a burst, in steps of 30 s; without a
\* new upload for that long, time moves on to the moment the next run is due
MaxGap == 1
\* the gaps between two uploads of a long burst, in steps of 30 s: 30 seconds
\* and 4 minutes 30 seconds
BurstGaps == {1, 9}
\* the longest time between two uploads of one viewer, in steps of 30 s
MaxIdle == 19
\* the number of failures of the environment (scheduler API, database, network)
\* injected in one behaviour
MaxFaults == 1
\* the jobs created, the parts of a job, the dispatch attempts started
MaxJobs == 2
MaxParts == 2
MaxDispatches == 2
\* the hours the job clock runs
MaxHours == 2
\* the invocations of the modal's start effect
MaxStarts == 2
\* the status requests of one export that wait for their answer, and the
\* time the client's clock runs, in milliseconds
MaxInFlight == 2
MaxClock == 610000
\* the instants of the client's clock at which a step of startExport is taken
ExportInstants == {0, 5000, 595000}
\* the jobs one dataroom holds when its jobs are listed
MaxStored == 11

\* -------------------------------------------------------- program constants
\* 5 * 60 * 1000 ms, in steps of 30 s
NotificationDelay == 10
\* 10 * 60 * 1000 ms, in steps of 30 s
Lookback == 20
\* period: "10m", in steps of 30 s
ListPeriod == 20
\* retry: { maxAttempts: 3 }
MaxAttempts == 3
\* getDataroomJobs(dataroomId, teamId, 10)
JobListLimit == 10
\* failed jobs are listed for 60 * 60 * 1000 ms, in hours
FailedWindow == 1
\* the retention window that sets expiresAt on completion, in hours
Retention == 2
\* THREE_DAYS_IN_SECONDS = 3 * 24 * 60 * 60
ThreeDaysInSeconds == 259200
\* the export modal: the polling interval and the timeout, in milliseconds
PollIntervalMs == 5000
PollTimeoutMs == 600000
\* retry: { maxAttempts: 3 } of the conversion tasks
ConvertMaxAttempts == 3
\* byStatus "500-599": maxAttempts, factor, minTimeoutInMs, maxTimeoutInMs
FetchMaxAttempts == 3
Factor == 2
MinTimeoutInMs == 1000
MaxTimeoutInMs == 30000

VARIABLES
    now,        \* the clock, in steps of 30 s
    teamUsers,  \* the UserTeam rows of the team
    uploads,    \* upload requests, in order of arrival, with their DocumentUpload row
    runs,       \* the scheduler's runs of send-dataroom-upload-notification
    posts,      \* the requests the notification task made to the notification endpoint
    faults,     \* the number of failures of the environment so far
    hour,       \* the clock of the job requests, in hours
    jobs,       \* the job store: the job records by job id
    dispatches, \* the dispatch attempts of the jobs
    lambdaCalls,\* the number of invocations of the compute backend, by <<job id, part>>
    response,   \* the answer to the request just served; none after any other step of the server
    modal,      \* the export modal of the client
    conversion  \* the conversion task of a document version

notifVars == <<now, teamUsers, uploads, runs, posts, faults>>
jobVars == <<hour, jobs, dispatches, lambdaCalls, response>>
vars == <<now, teamUsers, uploads, runs, posts, faults,
          hour, jobs, dispatches, lambdaCalls, response, modal, conversion>>

\* ------------------------------------------------------------ the database
\* the dataroom sessions: the viewers and the link each of them came through
Sessions == { <<"l1", "v1">>, <<"l1", "v2">>, <<"l2", "v1">> }

\* the sessions on links with notifications on
BurstSessions == { <<"l1", "v1">>, <<"l1", "v2">> }

\* link rows of one dataroom; l2 has notifications off
LinkIds == {"l1", "l2"}

Link(l) ==
    [id |-> l,
     dataroomId |-> "d1",
     teamId |-> "t1",
     enableUpload |-> (l # "l3"),
     enableNotification |-> (l = "l1"),
     ownerId |-> "o"]

\* the link rows of the dataroom: l3 has uploads off
LinkRows == LinkIds \cup {"l3"}

\* the viewer rows of the team
ViewerRows == {"v1", "v2"}

Datarooms == {"d1"}

\* the membership tables a team can have
ActiveTeam ==
    { [userId |-> "a", role |-> "ADMIN", status |-> "ACTIVE"],
      [userId |-> "m", role |-> "MANAGER", status |-> "ACTIVE"],
      [userId |-> "o", role |-> "MEMBER", status |-> "ACTIVE"] }

BlockedAdminTeam ==
    { [userId |-> "a", role |-> "ADMIN", status |-> "BLOCKED_TRIAL_EXPIRED"],
      [userId |-> "m", role |-> "MANAGER", status |-> "ACTIVE"],
      [userId |-> "o", role |-> "MEMBER", status |-> "ACTIVE"] }

TeamConfigs == {ActiveTeam, BlockedAdminTeam}

\* ---------------------------------------------------------------- the tags
RequiredTags(d, l, v) ==
    { <<"dataroom", d>>, <<"link", l>>, <<"viewer", v>> }

TriggerTags(t, d, l, v) ==
    { <<"team", t>>, <<"dataroom", d>>, <<"link", l>>, <<"viewer", v>> }

IdempotencyKey(t, d, l, v, doc) == <<"upload-notification", t, d, l, v, doc>>

RunIds == 1..Len(runs)
UploadIds == 1..Len(uploads)

Live(r) == runs[r].status \in {"DELAYED", "QUEUED"}

\* runs.list: the runs of the task in one of the statuses, created within the
\* period, carrying ANY of the tags
RunsList(tags, statuses, period) ==
    { r \in RunIds :
        /\ runs[r].status \in statuses
        /\ runs[r].createdAt >= now - period
        /\ runs[r].tags \cap tags # {} }

\* a filter that keeps the runs whose tags are exactly the required tags
MatchingRunsExact(allRuns, requiredTags) ==
    { r \in allRuns : runs[r].tags = requiredTags }

\* a filter that keeps the runs carrying some required tag
MatchingRunsAny(allRuns, requiredTags) ==
    { r \in allRuns : \E tag \in requiredTags : tag \in runs[r].tags }

\* the client-side filter: a run matches when it carries EVERY required tag
MatchingRuns(allRuns, requiredTags) ==
    { r \in allRuns : \A tag \in requiredTags : tag \in runs[r].tags }

\* runs.cancel of each run: a run that is no longer pending is left as it is
CancelAll(rs) ==
    [r \in RunIds |->
        IF r \in rs /\ Live(r)
        THEN [runs[r] EXCEPT !.status = "CANCELED"]
        ELSE runs[r]]

\* task.trigger with an idempotency key: a run with the same key is returned
\* instead of a new one
TriggerRun(payload, key, tags, delay) ==
    IF \E r \in RunIds : runs[r].idempotencyKey = key
    THEN runs
    ELSE Append(runs,
            [idempotencyKey |-> key,
             tags |-> tags,
             payload |-> payload,
             status |-> "DELAYED",
             createdAt |-> now,
             delayUntil |-> delay,
             attempts |-> 0,
             outcome |-> "none",
             ranAt |-> 0])

RunOfKey(rs, key) == CHOOSE r \in 1..Len(rs) : rs[r].idempotencyKey = key

\* --------------------------------------------------- the upload route, POST
\* the rows steps 1 to 3 create for a request of viewer v on link l
NewUpload(l, v) ==
    [dataroomId |-> Link(l).dataroomId,
     linkId |-> l,
     viewerId |-> v,
     teamId |-> Link(l).teamId,
     uploadedAt |-> now,
     pc |-> IF Link(l).enableNotification THEN "list" ELSE "done",
     allRuns |-> {},
     matchingRuns |-> {},
     triggered |-> "no",
     run |-> 0]

\* steps 0 to 3: the request is checked and the document, the dataroom
\* document and the DocumentUpload row are created; the document id is the
\* upload's index
Upload(l, v) ==
    /\ Len(uploads) < MaxUploads
    /\ Link(l).enableUpload
    /\ uploads' = Append(uploads, NewUpload(l, v))
    /\ UNCHANGED <<conversion, now, teamUsers, runs, posts, faults, jobVars, modal>>

\* the requests to the route: the link id of the path, whether the body holds
\* documentData, its dataroomId, and what verifyDataroomSession finds for
\* them: no session, a session without a viewer, or the viewer's id
UploadRequests ==
    { [linkId |-> "l1", hasDocumentData |-> TRUE, dataroomId |-> "d1", session |-> "v1"],
      [linkId |-> "l1", hasDocumentData |-> TRUE, dataroomId |-> "d1", session |-> "v2"],
      [linkId |-> "", hasDocumentData |-> TRUE, dataroomId |-> "d1", session |-> "v1"],
      [linkId |-> "l1", hasDocumentData |-> FALSE, dataroomId |-> "d1", session |-> "v1"],
      [linkId |-> "l1", hasDocumentData |-> TRUE, dataroomId |-> "", session |-> "v1"],
      [linkId |-> "l1", hasDocumentData |-> TRUE, dataroomId |-> "d1", session |-> "none"],
      [linkId |-> "l1", hasDocumentData |-> TRUE, dataroomId |-> "d1", session |-> "no_viewer"],
      [linkId |-> "l9", hasDocumentData |-> TRUE, dataroomId |-> "d1", session |-> "none"],
      [linkId |-> "l9", hasDocumentData |-> TRUE, dataroomId |-> "d1", session |-> "v1"],
      [linkId |-> "l3", hasDocumentData |-> TRUE, dataroomId |-> "d1", session |-> "v1"],
      [linkId |-> "l1", hasDocumentData |-> TRUE, dataroomId |-> "d2", session |-> "v1"],
      [linkId |-> "l1", hasDocumentData |-> TRUE, dataroomId |-> "d1", session |-> "v9"],
      [linkId |-> "l3", hasDocumentData |-> TRUE, dataroomId |-> "d1", session |-> "v9"] }

\* the status the checks of step 0 answer with, 0 when the request passes them
UploadCode(req) ==
    IF req.linkId = "" \/ ~ req.hasDocumentData \/ req.dataroomId = ""
    THEN 400
    ELSE IF req.session \in {"none", "no_viewer"}
    THEN 401
    ELSE IF \/ req.linkId \notin LinkRows
            \/ Link(req.linkId).dataroomId # req.dataroomId
            \/ ~ Link(req.linkId).enableUpload
    THEN 403
    ELSE IF req.session \notin ViewerRows
    THEN 404
    ELSE 0

\* a route that looks the viewer up after it has created the document
CreatedBeforeViewerCheck(code) == code \in {0, 404}

\* whether steps 1 to 3 are reached: they come after every check
Created(code) == code = 0

\* a request to the route, any request: it is answered by a check of step 0,
\* or the rows are created and the handler goes on to step 4
UploadRequest(req) ==
    LET code == UploadCode(req)
    IN /\ Created(code) => Len(uploads) < MaxUploads
       /\ uploads' = IF Created(code)
                     THEN Append(uploads, NewUpload(req.linkId, req.session))
                     ELSE uploads
       /\ response' = IF code = 0
                      THEN [op |-> "none"]
                      ELSE [op |-> "upload", request |-> req, code |-> code]
       /\ UNCHANGED <<conversion, now, teamUsers, runs, posts, faults, hour,
                      jobs, dispatches, lambdaCalls, modal>>

\* step 4: the pending runs are listed and filtered
ListRuns(u) ==
    /\ uploads[u].pc = "list"
    /\ LET up == uploads[u]
           requiredTags == RequiredTags(up.dataroomId, up.linkId, up.viewerId)
           allRuns == RunsList(requiredTags, {"DELAYED", "QUEUED"}, ListPeriod)
       IN uploads' = [uploads EXCEPT
                         ![u].pc = "cancel",
                         ![u].allRuns = allRuns,
                         ![u].matchingRuns = MatchingRuns(allRuns, requiredTags)]
    /\ UNCHANGED <<conversion, now, teamUsers, runs, posts, faults, jobVars, modal>>

\* runs.list throws: the catch block logs and no trigger is scheduled
ListRunsFails(u) ==
    /\ uploads[u].pc = "list"
    /\ faults < MaxFaults
    /\ faults' = faults + 1
    /\ uploads' = [uploads EXCEPT ![u].pc = "done", ![u].triggered = "skipped"]
    /\ UNCHANGED <<conversion, now, teamUsers, runs, posts, jobVars, modal>>

\* the matching runs are cancelled
CancelRuns(u) ==
    /\ uploads[u].pc = "cancel"
    /\ runs' = CancelAll(uploads[u].matchingRuns)
    /\ uploads' = [uploads EXCEPT ![u].pc = "trigger"]
    /\ UNCHANGED <<conversion, now, teamUsers, posts, faults, jobVars, modal>>

\* waitUntil(task.trigger(...)): the new run is scheduled 5 minutes from now
Trigger(u) ==
    /\ uploads[u].pc = "trigger"
    /\ LET up == uploads[u]
           key == IdempotencyKey(up.teamId, up.dataroomId, up.linkId, up.viewerId, u)
           new == TriggerRun(
                    [dataroomId |-> up.dataroomId, linkId |-> up.linkId,
                     viewerId |-> up.viewerId, teamId |-> up.teamId],
                    key,
                    TriggerTags(up.teamId, up.dataroomId, up.linkId, up.viewerId),
                    now + NotificationDelay)
       IN /\ runs' = new
          /\ uploads' = [uploads EXCEPT
                            ![u].pc = "done",
                            ![u].allRuns = {},
                            ![u].matchingRuns = {},
                            ![u].triggered = "yes",
                            ![u].run = RunOfKey(new, key)]
    /\ UNCHANGED <<conversion, now, teamUsers, posts, faults, jobVars, modal>>

\* the promise handed to waitUntil rejects: nothing awaits it, the request has
\* answered success and no run is scheduled
TriggerFails(u) ==
    /\ uploads[u].pc = "trigger"
    /\ faults < MaxFaults
    /\ faults' = faults + 1
    /\ uploads' = [uploads EXCEPT
                      ![u].pc = "done",
                      ![u].allRuns = {},
                      ![u].matchingRuns = {},
                      ![u].triggered = "failed"]
    /\ UNCHANGED <<conversion, now, teamUsers, runs, posts, jobVars, modal>>

\* ------------------------------------------- the scheduler and the task run
\* a delayed run is queued when its delay has elapsed
Enqueue(r) ==
    /\ runs[r].status = "DELAYED"
    /\ runs[r].delayUntil <= now
    /\ runs' = [runs EXCEPT ![r].status = "QUEUED"]
    /\ UNCHANGED <<conversion, now, teamUsers, uploads, posts, faults, jobVars, modal>>

\* a query that returns the latest upload only
RecentUploadsLatest(payload, since) ==
    { u \in UploadIds :
        /\ uploads[u].dataroomId = payload.dataroomId
        /\ uploads[u].linkId = payload.linkId
        /\ uploads[u].viewerId = payload.viewerId
        /\ uploads[u].uploadedAt >= since
        /\ \A w \in UploadIds :
             (/\ uploads[w].dataroomId = payload.dataroomId
              /\ uploads[w].linkId = payload.linkId
              /\ uploads[w].viewerId = payload.viewerId) => w <= u }

\* documentUpload.findMany of the task
RecentUploads(payload, since) ==
    { u \in UploadIds :
        /\ uploads[u].dataroomId = payload.dataroomId
        /\ uploads[u].linkId = payload.linkId
        /\ uploads[u].viewerId = payload.viewerId
        /\ uploads[u].uploadedAt >= since }

\* userTeam.findMany of the task
NotifiedUsers(teamId) ==
    { m \in teamUsers : m.role \in {"ADMIN", "MANAGER"} /\ m.status = "ACTIVE" }

\* the first notified user, whatever the role
AdminEmailAny(users) ==
    IF users # {}
    THEN (CHOOSE m \in users : TRUE).userId
    ELSE ""

\* users.find((user) => user.role === "ADMIN")?.user.email, "" when undefined
AdminEmail(users) ==
    IF \E m \in users : m.role = "ADMIN"
    THEN (CHOOSE m \in users : m.role = "ADMIN").userId
    ELSE ""

\* the team members copied on the notification: the other notified users and
\* the active link owner
TeamMembers(users, adminEmail, ownerId) ==
    { m.userId : m \in { x \in users : x.userId # adminEmail } }
    \cup { m.userId : m \in { x \in teamUsers :
                /\ x.userId = ownerId
                /\ x.status = "ACTIVE"
                /\ x.userId # adminEmail } }

\* how the run function ends for a run executed now
TaskOutcome(r, reachable) ==
    LET payload == runs[r].payload
        users == NotifiedUsers(payload.teamId)
    IN IF RecentUploads(payload, now - Lookback) = {} THEN "no_uploads"
       ELSE IF payload.dataroomId \notin Datarooms THEN "no_dataroom"
       ELSE IF AdminEmail(users) = "" THEN "no_admin"
       ELSE IF reachable THEN "sent"
       ELSE "send_failed"

\* the body posted to the notification endpoint
NotificationBody(r) ==
    LET payload == runs[r].payload
        users == NotifiedUsers(payload.teamId)
        adminEmail == AdminEmail(users)
    IN [run |-> r,
        dataroomId |-> payload.dataroomId,
        linkName |-> payload.linkId,
        uploaderEmail |-> payload.viewerId,
        documentNames |-> RecentUploads(payload, now - Lookback),
        ownerEmail |-> adminEmail,
        teamMembers |-> TeamMembers(users, adminEmail, Link(payload.linkId).ownerId),
        teamId |-> payload.teamId,
        at |-> now]

\* a run function that rethrows when the notification was not sent: the
\* scheduler retries the run
StatusAfterRethrow(outcome, attempts) ==
    IF outcome = "send_failed" /\ attempts + 1 < MaxAttempts
    THEN "QUEUED"
    ELSE "COMPLETED"

\* the status of a run whose function has returned: every return of the run
\* function, the ones after a non-OK response and in the catch block of the
\* request included, ends the run
StatusAfter(outcome, attempts) == "COMPLETED"

\* one attempt of the task that runs to its end; reachable says whether the
\* request to the notification endpoint got an OK response
RunTask(r, reachable) ==
    /\ runs[r].status = "QUEUED"
    /\ reachable \/ faults < MaxFaults
    /\ faults' = IF reachable THEN faults ELSE faults + 1
    /\ LET outcome == TaskOutcome(r, reachable)
       IN /\ runs' = [runs EXCEPT
                        ![r].status = StatusAfter(outcome, runs[r].attempts),
                        ![r].attempts = @ + 1,
                        ![r].outcome = outcome,
                        ![r].ranAt = now]
          /\ posts' = IF outcome \in {"sent", "send_failed"}
                      THEN Append(posts, NotificationBody(r))
                      ELSE posts
    /\ UNCHANGED <<conversion, now, teamUsers, uploads, jobVars, modal>>

\* one attempt in which a database query throws: the scheduler retries the
\* run until maxAttempts
RunTaskThrows(r) ==
    /\ runs[r].status = "QUEUED"
    /\ faults < MaxFaults
    /\ faults' = faults + 1
    /\ runs' = [runs EXCEPT
                  ![r].attempts = @ + 1,
                  ![r].status = IF runs[r].attempts + 1 >= MaxAttempts
                                THEN "FAILED" ELSE "QUEUED",
                  ![r].outcome = "threw",
                  ![r].ranAt = now]
    /\ UNCHANGED <<conversion, now, teamUsers, uploads, posts, jobVars, modal>>

Quiet ==
    /\ \A u \in UploadIds : uploads[u].pc = "done"
    /\ \A r \in RunIds :
         /\ runs[r].status # "QUEUED"
         /\ runs[r].status = "DELAYED" => runs[r].delayUntil > now

Min(S) == CHOOSE x \in S : \A y \in S : x <= y

\* 30 seconds pass during a burst of uploads; every request in flight has
\* answered and every run that is due has run
Tick ==
    /\ uploads # <<>>
    /\ now < uploads[Len(uploads)].uploadedAt + MaxGap
    /\ Quiet
    /\ now' = now + 1
    /\ UNCHANGED <<conversion, teamUsers, uploads, runs, posts, faults, jobVars, modal>>

\* nothing happens until the next delayed run is due
Sleep ==
    /\ Quiet
    /\ \E r \in RunIds : runs[r].status = "DELAYED"
    /\ now' = Min({ runs[r].delayUntil : r \in { x \in RunIds : runs[x].status = "DELAYED" } })
    /\ UNCHANGED <<conversion, teamUsers, uploads, runs, posts, faults, jobVars, modal>>

\* some time passes, less than it takes for the next delayed run to be due
Pause(gap) ==
    /\ uploads # <<>>
    /\ Len(uploads) < MaxUploads
    /\ now + gap <= uploads[Len(uploads)].uploadedAt + MaxIdle
    /\ Quiet
    /\ \A r \in RunIds :
         runs[r].status = "DELAYED" => runs[r].delayUntil >= now + gap
    /\ now' = now + gap
    /\ UNCHANGED <<conversion, teamUsers, uploads, runs, posts, faults, jobVars, modal>>

\* ===================================================== the download jobs
\* who a job belongs to: a team user, or a visitor of a link
Actors ==
    { [userId |-> "u1", linkId |-> "none", viewerEmail |-> "none"],
      [userId |-> "none", linkId |-> "l1", viewerEmail |-> "v1@x.io"] }

\* the idempotency keys a caller supplies with a create request
Keys == {"none", "k1"}

JobIds == 1..Len(jobs)

\* ---------------------------------------------------- presigned URLs
\* a URL is its host, as the labels between the dots, and the segments of its
\* path as written in the URL, percent escapes included
BackendUrls ==
    { [host |-> <<"bucket1", "s3", "us-east-1", "amazonaws", "com">>,
       path |-> <<"exports", "x.zip">>],
      [host |-> <<"cdn", "example", "com">>,
       path |-> <<"exports", "x.zip">>] }

NoKeyInfo == [bucket |-> "", key |-> "", region |-> "undefined"]

\* parts.join(sep)
RECURSIVE Join(_, _)
Join(parts, sep) ==
    IF parts = <<>> THEN ""
    ELSE IF Len(parts) = 1 THEN parts[1]
    ELSE parts[1] \o sep \o Join(Tail(parts), sep)

\* text.split(sep) for a separator of one character
RECURSIVE Split(_, _)
Split(text, sep) ==
    IF text = "" THEN <<"">>
    ELSE LET rest == Split(Tail(text), sep)
         IN IF Head(text) = sep
            THEN <<"">> \o rest
            ELSE <<Head(text) \o rest[1]>> \o Tail(rest)

\* the characters of the keys that encodeURIComponent escapes
Escaped(char) ==
    CASE char = "%" -> "%25"
      [] char = " " -> "%20"
      [] char = "/" -> "%2F"
      [] OTHER -> char

RECURSIVE EncodeURIComponent(_)
EncodeURIComponent(text) ==
    IF text = "" THEN ""
    ELSE Escaped(Head(text)) \o EncodeURIComponent(Tail(text))

\* the escapes decodeURIComponent meets
Unescaped(code) ==
    CASE code = "25" -> "%"
      [] code = "20" -> " "
      [] code = "2F" -> "/"

\* decodeURIComponent: ok is FALSE where it throws URIError
RECURSIVE DecodeURIComponent(_)
DecodeURIComponent(text) ==
    IF text = "" THEN [ok |-> TRUE, text |-> ""]
    ELSE IF Head(text) # "%"
    THEN LET rest == DecodeURIComponent(Tail(text))
         IN [ok |-> rest.ok, text |-> Head(text) \o rest.text]
    ELSE IF Len(text) < 3 \/ SubSeq(text, 2, 3) \notin {"25", "20", "2F"}
    THEN [ok |-> FALSE, text |-> ""]
    ELSE LET rest == DecodeURIComponent(SubSeq(text, 4, Len(text)))
         IN [ok |-> rest.ok,
             text |-> Unescaped(SubSeq(text, 2, 3)) \o rest.text]

\* new URL(text) resolves the "." and ".." segments of the path
RECURSIVE RemoveDotSegments(_, _)
RemoveDotSegments(done, todo) ==
    IF todo = <<>> THEN done
    ELSE LET segment == Head(todo)
             closing == IF Len(todo) = 1 THEN <<"">> ELSE <<>>
         IN IF segment = ".."
            THEN RemoveDotSegments(
                    (IF done = <<>> THEN <<>>
                     ELSE SubSeq(done, 1, Len(done) - 1)) \o closing,
                    Tail(todo))
            ELSE IF segment = "."
            THEN RemoveDotSegments(done \o closing, Tail(todo))
            ELSE RemoveDotSegments(Append(done, segment), Tail(todo))

\* url.pathname.slice(1).split("/") of the URL that new URL(text) gives
PathParts(url) == RemoveDotSegments(<<>>, url.path)

\* the host matches /^s3\.([^.]+)\.amazonaws\.com$/
PathStyleHost(host) ==
    /\ Len(host) = 4
    /\ host[1] = "s3" /\ host[3] = "amazonaws" /\ host[4] = "com"

\* the host matches /^(.+)\.s3\.([^.]+)\.amazonaws\.com$/
VirtualHost(host) ==
    /\ Len(host) >= 5
    /\ host[Len(host) - 3] = "s3"
    /\ host[Len(host) - 1] = "amazonaws" /\ host[Len(host)] = "com"

\* the host matches /^(.+)\.s3\.amazonaws\.com$/
VirtualNoRegionHost(host) ==
    /\ Len(host) >= 4
    /\ host[Len(host) - 2] = "s3"
    /\ host[Len(host) - 1] = "amazonaws" /\ host[Len(host)] = "com"

\* a parser that tries the region-omitted shape before the one with a region
ParseS3PresignedUrlNoRegionFirst(url) ==
    LET host == url.host
        n == Len(host)
        parts == PathParts(url)
        decoded == [i \in 1..Len(parts) |-> DecodeURIComponent(parts[i])]
        key == DecodeURIComponent(Join(parts, "/"))
    IN IF PathStyleHost(host)
       THEN IF \E i \in 1..Len(parts) : ~ decoded[i].ok
            THEN NoKeyInfo
            ELSE [bucket |-> decoded[1].text,
                  key |-> Join([i \in 1..(Len(parts) - 1) |->
                                   decoded[i + 1].text], "/"),
                  region |-> host[2]]
       ELSE IF VirtualNoRegionHost(host)
       THEN IF ~ key.ok THEN NoKeyInfo
            ELSE [bucket |-> Join(SubSeq(host, 1, n - 3), "."),
                  key |-> key.text,
                  region |-> "us-east-1"]
       ELSE IF VirtualHost(host)
       THEN IF ~ key.ok THEN NoKeyInfo
            ELSE [bucket |-> Join(SubSeq(host, 1, n - 4), "."),
                  key |-> key.text,
                  region |-> host[n - 2]]
       ELSE NoKeyInfo

\* parseS3PresignedUrl; NoKeyInfo stands for the thrown error
ParseS3PresignedUrl(url) ==
    LET host == url.host
        n == Len(host)
        parts == PathParts(url)
        decoded == [i \in 1..Len(parts) |-> DecodeURIComponent(parts[i])]
        key == DecodeURIComponent(Join(parts, "/"))
    IN IF PathStyleHost(host)
       THEN IF \E i \in 1..Len(parts) : ~ decoded[i].ok
            THEN NoKeyInfo
            ELSE [bucket |-> decoded[1].text,
                  key |-> Join([i \in 1..(Len(parts) - 1) |->
                                   decoded[i + 1].text], "/"),
                  region |-> host[2]]
       ELSE IF VirtualHost(host)
       THEN IF ~ key.ok THEN NoKeyInfo
            ELSE [bucket |-> Join(SubSeq(host, 1, n - 4), "."),
                  key |-> key.text,
                  region |-> host[n - 2]]
       ELSE IF VirtualNoRegionHost(host)
       THEN IF ~ key.ok THEN NoKeyInfo
            ELSE [bucket |-> Join(SubSeq(host, 1, n - 3), "."),
                  key |-> key.text,
                  region |-> "us-east-1"]
       ELSE NoKeyInfo

\* the segments of the path that addresses a key
KeyPath(key) ==
    LET segments == Split(key, "/")
    IN [i \in 1..Len(segments) |-> EncodeURIComponent(segments[i])]

\* https://s3.{region}.amazonaws.com/{bucket}/{key}
PathStyleUrl(ref) ==
    [host |-> <<"s3", ref.region, "amazonaws", "com">>,
     path |-> <<EncodeURIComponent(ref.bucket)>> \o KeyPath(ref.key)]

\* https://{bucket}.s3.{region}.amazonaws.com/{key}
VirtualHostedUrl(ref) ==
    [host |-> Split(ref.bucket, ".") \o <<"s3", ref.region, "amazonaws", "com">>,
     path |-> KeyPath(ref.key)]

\* https://{bucket}.s3.amazonaws.com/{key}
VirtualHostedNoRegionUrl(ref) ==
    [host |-> Split(ref.bucket, ".") \o <<"s3", "amazonaws", "com">>,
     path |-> KeyPath(ref.key)]

\* ------------------------------- the download-batch processor (internal)
EnvInternalApiKey == "secret"

\* a handler that takes the first word of the header as the token
AuthTokenFirstWord(authorization) ==
    IF Len(authorization) >= 1 THEN authorization[1] ELSE "undefined"

\* authHeader?.split(" ")[1]; the header is given as its words
AuthToken(authorization) ==
    IF Len(authorization) >= 2 THEN authorization[2] ELSE "undefined"

\* what the compute backend can answer to an invocation
LambdaResults ==
    { [kind |-> "ok", url |-> u] : u \in BackendUrls }
    \cup { [kind |-> k, url |-> <<>>] :
             k \in {"no_payload", "error_message", "bad_json", "client_error"} }

\* the answers of a backend, the ones with a malformed body included
BackendAnswers ==
    LambdaResults \cup {[kind |-> "bad_body", url |-> <<>>]}

\* the text that comes with a failure: payload.errorMessage of the backend,
\* the message of the error thrown by client.send or by JSON.parse
BackendMessage(lam) ==
    CASE lam.kind = "error_message" -> "Task timed out after 300.00 seconds"
      [] lam.kind = "client_error" -> "connect ETIMEDOUT"
      [] lam.kind = "bad_json" -> "Unexpected token < in JSON at position 0"
      [] lam.kind = "bad_body" -> "Unexpected end of JSON input"
      [] OTHER -> ""

\* a handler that does not look at payload.errorMessage: payload.body is
\* undefined then and JSON.parse throws
ErrorMessageUnchecked(lam) ==
    CASE lam.kind = "no_payload" ->
           "Lambda response payload is undefined or empty"
      [] lam.kind = "error_message" -> "\"undefined\" is not valid JSON"
      [] OTHER -> BackendMessage(lam)

\* (error as Error).message of the error the handler catches
ErrorMessage(lam) ==
    CASE lam.kind = "no_payload" ->
           "Lambda response payload is undefined or empty"
      [] lam.kind = "error_message" -> "Lambda error: " \o BackendMessage(lam)
      [] OTHER -> BackendMessage(lam)

\* the values of process.env.INTERNAL_API_KEY: the secret, and undefined when
\* the variable is not set. No header of Authorizations holds the word
\* "undefined", so the value stands for undefined alone
Environments == {EnvInternalApiKey, "undefined"}

\* whether the request gets as far as client.send(command), in a process
\* whose INTERNAL_API_KEY is key
BatchInvokesIn(key, req, lam) ==
    /\ req.method = "POST"
    /\ AuthToken(req.authorization) = key
    /\ req.hasParams
    /\ lam.kind # "client_error"

\* whether the request gets as far as client.send(command)
BatchInvokes(req, lam) == BatchInvokesIn(EnvInternalApiKey, req, lam)

\* a handler for which a URL that cannot be parsed is an error
BatchProcessParseFatal(req, lam) ==
    IF req.method # "POST"
    THEN [code |-> 405, downloadUrl |-> <<>>, s3KeyInfo |-> NoKeyInfo, details |-> ""]
    ELSE IF AuthToken(req.authorization) # EnvInternalApiKey
    THEN [code |-> 401, downloadUrl |-> <<>>, s3KeyInfo |-> NoKeyInfo, details |-> ""]
    ELSE IF ~ req.hasParams
    THEN [code |-> 400, downloadUrl |-> <<>>, s3KeyInfo |-> NoKeyInfo, details |-> ""]
    ELSE IF lam.kind = "ok" /\ ParseS3PresignedUrl(lam.url) # NoKeyInfo
    THEN [code |-> 200, downloadUrl |-> lam.url,
          s3KeyInfo |-> ParseS3PresignedUrl(lam.url), details |-> ""]
    ELSE [code |-> 500, downloadUrl |-> <<>>, s3KeyInfo |-> NoKeyInfo,
          details |-> IF lam.kind = "ok" THEN "Unable to parse S3 URL"
                      ELSE ErrorMessage(lam)]

\* the answer of the handler in a process whose INTERNAL_API_KEY is key
BatchProcessIn(key, req, lam) ==
    IF req.method # "POST"
    THEN [code |-> 405, downloadUrl |-> <<>>, s3KeyInfo |-> NoKeyInfo, details |-> ""]
    ELSE IF AuthToken(req.authorization) # key
    THEN [code |-> 401, downloadUrl |-> <<>>, s3KeyInfo |-> NoKeyInfo, details |-> ""]
    ELSE IF ~ req.hasParams
    THEN [code |-> 400, downloadUrl |-> <<>>, s3KeyInfo |-> NoKeyInfo, details |-> ""]
    ELSE IF lam.kind = "ok"
    THEN [code |-> 200, downloadUrl |-> lam.url,
          s3KeyInfo |-> ParseS3PresignedUrl(lam.url), details |-> ""]
    ELSE [code |-> 500, downloadUrl |-> <<>>, s3KeyInfo |-> NoKeyInfo,
          details |-> ErrorMessage(lam)]

\* the answer of the handler
BatchProcess(req, lam) == BatchProcessIn(EnvInternalApiKey, req, lam)

\* a handler that invokes the backend again when the first answer is an error
BatchCallsRetrying(lam) ==
    IF lam.kind = "ok" THEN 1 ELSE 2

\* the invocations one request makes: client.send(command) is called once
BatchCalls(lam) == 1

\* ------------------------------------ requests to the internal endpoints
\* the Authorization headers a caller can send, as their words: none, a
\* scheme alone, the secret with and without a scheme, another token, an
\* empty token (two spaces), and words after the token
Authorizations ==
    { <<>>, <<"Bearer">>, <<EnvInternalApiKey>>,
      <<"Bearer", EnvInternalApiKey>>, <<"Basic", EnvInternalApiKey>>,
      <<"Bearer", "wrong">>, <<"Bearer", "", EnvInternalApiKey>>,
      <<"Bearer", EnvInternalApiKey, "x">> }

\* hasParams: the body holds the fields the handler reads
InternalRequests ==
    [method : {"POST", "GET", "PUT"},
     authorization : Authorizations,
     hasParams : BOOLEAN]

\* the notification endpoint: its status code and the emails it sends. A body
\* without documentNames makes sendDataroomUploadNotification throw before
\* sendEmail; a failure of sendEmail is caught there and the answer is 200
NotifyProcessIn(key, req, mailOk) ==
    IF req.method # "POST"
    THEN [code |-> 405, emails |-> 0]
    ELSE IF AuthToken(req.authorization) # key
    THEN [code |-> 401, emails |-> 0]
    ELSE IF ~ req.hasParams
    THEN [code |-> 500, emails |-> 0]
    ELSE [code |-> 200, emails |-> IF mailOk THEN 1 ELSE 0]

NotifyProcess(req, mailOk) == NotifyProcessIn(EnvInternalApiKey, req, mailOk)

\* a request to the notification endpoint
NotifyRequest(req, mailOk) ==
    /\ response' = [op |-> "notify", request |-> req,
                    code |-> NotifyProcess(req, mailOk).code,
                    emails |-> NotifyProcess(req, mailOk).emails,
                    mailOk |-> mailOk,
                    invocations |-> 0]
    /\ UNCHANGED <<conversion, notifVars, hour, jobs, dispatches, lambdaCalls, modal>>

\* a request to the download-batch processor
BatchRequest(req, lam) ==
    /\ response' = [op |-> "batch", request |-> req,
                    code |-> BatchProcess(req, lam).code,
                    emails |-> 0,
                    invocations |-> IF BatchInvokes(req, lam)
                                    THEN BatchCalls(lam) ELSE 0,
                    backend |-> lam,
                    body |-> BatchProcess(req, lam)]
    /\ UNCHANGED <<conversion, notifVars, hour, jobs, dispatches, lambdaCalls, modal>>

\* a request to the notification endpoint of a process whose
\* INTERNAL_API_KEY is key
NotifyRequestIn(key, req, mailOk) ==
    /\ response' = [op |-> "notify", env |-> key, request |-> req,
                    code |-> NotifyProcessIn(key, req, mailOk).code,
                    emails |-> NotifyProcessIn(key, req, mailOk).emails,
                    mailOk |-> mailOk,
                    invocations |-> 0]
    /\ UNCHANGED <<conversion, notifVars, hour, jobs, dispatches, lambdaCalls, modal>>

\* a request to the download-batch processor of a process whose
\* INTERNAL_API_KEY is key
BatchRequestIn(key, req, lam) ==
    /\ response' = [op |-> "batch", env |-> key, request |-> req,
                    code |-> BatchProcessIn(key, req, lam).code,
                    emails |-> 0,
                    invocations |-> IF BatchInvokesIn(key, req, lam)
                                    THEN BatchCalls(lam) ELSE 0,
                    backend |-> lam,
                    body |-> BatchProcessIn(key, req, lam)]
    /\ UNCHANGED <<conversion, notifVars, hour, jobs, dispatches, lambdaCalls, modal>>

\* -------------------------------------------- the job store, the dispatcher
\* create: a request with the key of an existing job gets that job
JobOfKey(key) ==
    IF key # "none" /\ \E j \in JobIds : jobs[j].key = key
    THEN CHOOSE j \in JobIds : jobs[j].key = key
    ELSE 0

\* what a create request leaves in the store
CreatedJobs(actor, key, parts) ==
    IF JobOfKey(key) # 0 THEN jobs
    ELSE Append(jobs,
           [key |-> key,
            userId |-> actor.userId,
            linkId |-> actor.linkId,
            viewerEmail |-> actor.viewerEmail,
            teamId |-> "t1",
            dataroomId |-> "d1",
            status |-> "PENDING",
            totalParts |-> parts,
            downloadUrls |-> <<>>,
            downloadS3Keys |-> <<>>,
            createdAt |-> hour,
            expiresAt |-> 0,
            error |-> ""])

CreateJobUpTo(actor, key, parts, max) ==
    /\ \/ Len(jobs) < max
       \/ JobOfKey(key) # 0
    /\ jobs' = CreatedJobs(actor, key, parts)
    /\ response' = [op |-> "create", code |-> 202, key |-> key,
                    existing |-> JobOfKey(key) # 0,
                    jobId |-> IF JobOfKey(key) # 0 THEN JobOfKey(key)
                              ELSE Len(jobs) + 1]
    /\ UNCHANGED <<conversion, notifVars, hour, dispatches, lambdaCalls, modal>>

CreateJob(actor, key, parts) == CreateJobUpTo(actor, key, parts, MaxJobs)

\* an update that takes the job whatever its status
TakeJobAlways(j) == TRUE

\* the atomic update that starts a dispatch: only a PENDING job is taken
TakeJob(j) == jobs[j].status = "PENDING"

\* a dispatch attempt reads the job and, in the same atomic update, takes it
DispatchStart(j) ==
    /\ Len(dispatches) < MaxDispatches
    /\ dispatches' = Append(dispatches,
           [job |-> j,
            observed |-> jobs[j].status,
            pc |-> IF TakeJob(j) THEN "invoke" ELSE "noop",
            part |-> 1,
            urls |-> <<>>,
            keys |-> <<>>,
            error |-> ""])
    /\ jobs' = IF TakeJob(j)
               THEN [jobs EXCEPT ![j].status = "PROCESSING"]
               ELSE jobs
    /\ response' = [op |-> "none"]
    /\ UNCHANGED <<conversion, notifVars, hour, lambdaCalls, modal>>

\* the attempt posts one part to the download-batch processor
DispatchInvoke(d, lam) ==
    /\ dispatches[d].pc = "invoke"
    /\ LET at == dispatches[d]
           req == [method |-> "POST",
                   authorization |-> <<"Bearer", EnvInternalApiKey>>,
                   hasParams |-> TRUE]
           res == BatchProcess(req, lam)
       IN /\ lambdaCalls' =
                IF BatchInvokes(req, lam)
                THEN [lambdaCalls EXCEPT ![<<at.job, at.part>>] = @ + BatchCalls(lam)]
                ELSE lambdaCalls
          /\ dispatches' =
                IF res.code = 200
                THEN [dispatches EXCEPT
                        ![d].urls = Append(@, res.downloadUrl),
                        ![d].keys = Append(@, res.s3KeyInfo),
                        ![d].part = IF at.part = jobs[at.job].totalParts
                                    THEN @ ELSE @ + 1,
                        ![d].pc = IF at.part = jobs[at.job].totalParts
                                  THEN "completed" ELSE "invoke"]
                ELSE [dispatches EXCEPT ![d].pc = "failed", ![d].error = res.details]
    /\ response' = [op |-> "none"]
    /\ UNCHANGED <<conversion, notifVars, hour, jobs, modal>>

\* the attempt writes the terminal state of the job
DispatchFinish(d) ==
    /\ dispatches[d].pc \in {"completed", "failed"}
    /\ LET at == dispatches[d]
       IN jobs' = IF at.pc = "completed"
                  THEN [jobs EXCEPT
                          ![at.job].status = "COMPLETED",
                          ![at.job].downloadUrls = at.urls,
                          ![at.job].downloadS3Keys = at.keys,
                          ![at.job].expiresAt = hour + Retention]
                  ELSE [jobs EXCEPT
                          ![at.job].status = "FAILED",
                          ![at.job].error = at.error]
    /\ dispatches' = [dispatches EXCEPT
                        ![d].pc = "done", ![d].urls = <<>>, ![d].keys = <<>>]
    /\ response' = [op |-> "none"]
    /\ UNCHANGED <<conversion, notifVars, hour, lambdaCalls, modal>>

\* ------------------------------------------------------ the read paths
\* a signer that names the download by the whole key
GenerateFreshPresignedUrlWholeKey(teamId, s3Key, expiresInSeconds) ==
    [host |-> Split(s3Key.bucket, ".")
                 \o <<"s3", s3Key.region, "amazonaws", "com">>,
     path |-> KeyPath(s3Key.key),
     expiresIn |-> expiresInSeconds,
     disposition |-> "attachment; filename=\""
                        \o EncodeURIComponent(s3Key.key) \o "\"",
     cacheControl |-> "no-cache, no-store, must-revalidate"]

\* generateFreshPresignedUrl: a URL signed with the team's credentials
GenerateFreshPresignedUrl(teamId, s3Key, expiresInSeconds) ==
    LET segments == Split(s3Key.key, "/")
        name == segments[Len(segments)]
    IN [host |-> Split(s3Key.bucket, ".")
                    \o <<"s3", s3Key.region, "amazonaws", "com">>,
        path |-> [i \in 1..Len(segments) |-> EncodeURIComponent(segments[i])],
        expiresIn |-> expiresInSeconds,
        disposition |-> "attachment; filename=\""
                           \o EncodeURIComponent(IF name = "" THEN "download.zip"
                                                 ELSE name)
                           \o "\"",
        cacheControl |-> "no-cache, no-store, must-revalidate"]

\* getDataroomJobs: the latest jobs of the dataroom, at most limit of them
GetDataroomJobs(dataroomId, teamId, limit) ==
    LET cand == { j \in JobIds :
                    jobs[j].dataroomId = dataroomId /\ jobs[j].teamId = teamId }
        Newer(k, j) == \/ jobs[k].createdAt > jobs[j].createdAt
                       \/ jobs[k].createdAt = jobs[j].createdAt /\ k > j
    IN { j \in cand : Cardinality({ k \in cand : Newer(k, j) }) < limit }

\* the members of the team
TeamAccess(userId) == userId \in {"u1", "u2"}

\* a filter that lets the status of a stored job lapse: an expired completed
\* job is written back as failed
ListedStoreLapsing(listed) ==
    [j \in JobIds |->
        IF j \in listed /\ jobs[j].status = "COMPLETED" /\ jobs[j].expiresAt <= hour
        THEN [jobs[j] EXCEPT !.status = "FAILED"]
        ELSE jobs[j]]

\* what the listing leaves in the store: it writes nothing
ListedStore(listed) == jobs

\* a filter that looks at the status of a job and not at its owner
UserJobAnyOwner(job, userId) ==
    \/ job.status \in {"PENDING", "PROCESSING"}
    \/ job.status = "COMPLETED" /\ job.expiresAt # 0 /\ job.expiresAt > hour
    \/ job.status = "FAILED" /\ job.createdAt > hour - FailedWindow

\* the filter of the listing: the user's own jobs that are still relevant
UserJob(job, userId) ==
    /\ job.userId = userId
    /\ \/ job.status \in {"PENDING", "PROCESSING"}
       \/ job.status = "COMPLETED" /\ job.expiresAt # 0 /\ job.expiresAt > hour
       \/ job.status = "FAILED" /\ job.createdAt > hour - FailedWindow

\* a listing that mints the URL of the first part only
JobWithFirstUrlFresh(job, teamId, mintFails) ==
    IF job.status = "COMPLETED" /\ Len(job.downloadS3Keys) > 0
       /\ job.downloadS3Keys[1] # NoKeyInfo
    THEN [job EXCEPT !.downloadUrls =
            <<GenerateFreshPresignedUrl(teamId, job.downloadS3Keys[1],
                                        ThreeDaysInSeconds)>>]
    ELSE job

\* a listing that never mints
JobWithStoredUrls(job, teamId, mintFails) == job

\* a listed job with fresh URLs when it is completed and minting succeeds;
\* minting throws for a part without key info
JobWithFreshUrls(job, teamId, mintFails) ==
    IF /\ job.status = "COMPLETED"
       /\ Len(job.downloadS3Keys) > 0
       /\ Len(job.downloadUrls) > 0
       /\ ~ mintFails
       /\ \A i \in 1..Len(job.downloadS3Keys) : job.downloadS3Keys[i] # NoKeyInfo
    THEN [job EXCEPT !.downloadUrls =
            [i \in 1..Len(job.downloadS3Keys) |->
                GenerateFreshPresignedUrl(teamId, job.downloadS3Keys[i],
                                          ThreeDaysInSeconds)]]
    ELSE job

\* GET /api/teams/[teamId]/datarooms/[id]/download/jobs
ListJobs(session, method, failing) ==
    /\ response' =
         IF session = "none"
         THEN [op |-> "list", request |-> <<session, method, failing>>, code |-> 401]
         ELSE IF method # "GET"
         THEN [op |-> "list", request |-> <<session, method, failing>>, code |-> 405]
         ELSE IF ~ TeamAccess(session)
         THEN [op |-> "list", request |-> <<session, method, failing>>, code |-> 403]
         ELSE LET listed == { j \in GetDataroomJobs("d1", "t1", JobListLimit) :
                                UserJob(jobs[j], session) }
              IN [op |-> "list", request |-> <<session, method, failing>>,
                  code |-> 200,
                  jobs |-> [j \in listed |->
                              JobWithFreshUrls(jobs[j], "t1", j \in failing)]]
    /\ jobs' = ListedStore(GetDataroomJobs("d1", "t1", JobListLimit))
    /\ UNCHANGED <<conversion, notifVars, hour, dispatches, lambdaCalls, modal>>

\* the message of the error a failing read of the database or of the job
\* store throws
StoreErrorMessage == "connect ECONNREFUSED 10.0.3.7:6379"

\* the same request when prisma.userTeam.findUnique or getDataroomJobs throws:
\* the catch block answers 500 with the message of the error
ListJobsFails(session) ==
    /\ session # "none"
    /\ response' = [op |-> "list", request |-> <<session, "GET", {}>>,
                    code |-> 500,
                    error |-> "Failed to fetch download jobs",
                    details |-> StoreErrorMessage]
    /\ UNCHANGED <<conversion, notifVars, hour, jobs, dispatches, lambdaCalls,
                   modal>>

\* parseInt(partIndex, 10) of the inputs tried: the leading integer of the
\* text, or NaN when the text does not start with one
ParseInt(text) ==
    CASE text = "0" -> [nan |-> FALSE, n |-> 0]
      [] text = "1" -> [nan |-> FALSE, n |-> 1]
      [] text = "2" -> [nan |-> FALSE, n |-> 2]
      [] text = "-1" -> [nan |-> FALSE, n |-> 0 - 1]
      [] text = "1abc" -> [nan |-> FALSE, n |-> 1]
      [] OTHER -> [nan |-> TRUE, n |-> 0]

\* toLowerCase().trim() of the e-mail addresses tried
NormalizeEmail(email) ==
    CASE email = " V1@x.io" -> "v1@x.io"
      [] OTHER -> email

\* the e-mail address of the view of a session; "none" when the view has none
ViewerEmailOf(session) ==
    CASE session = "view1" -> " V1@x.io"
      [] session = "view2" -> "v2@x.io"
      [] OTHER -> "none"

\* a check of the link alone
NotJobOwnerByLink(job, linkId, viewerEmail) ==
    job.linkId # linkId

\* job.linkId !== linkId || the normalised e-mail addresses differ
NotJobOwner(job, linkId, viewerEmail) ==
    \/ job.linkId # linkId
    \/ NormalizeEmail(job.viewerEmail) # NormalizeEmail(viewerEmail)

\* a handler that tells the caller of a job not ready to come back later
NotReadyCodeAccepted(job) ==
    IF job.status # "COMPLETED" \/ Len(job.downloadUrls) = 0 THEN 202 ELSE 0

\* the status code for a job that is not COMPLETED or holds no URL; 0 when
\* the job is ready
NotReadyCode(job) ==
    IF job.status # "COMPLETED" \/ Len(job.downloadUrls) = 0 THEN 400 ELSE 0

\* a check that lets the index one past the last part through
PartIndexInvalidPastEnd(parsed, length) ==
    parsed.nan \/ parsed.n < 0 \/ parsed.n > length

\* Number.isNaN(index) || index < 0 || index >= job.downloadUrls.length
PartIndexInvalid(parsed, length) ==
    parsed.nan \/ parsed.n < 0 \/ parsed.n >= length

\* list[index] of a JavaScript array: undefined outside the array
Undefined == [host |-> <<>>, path |-> <<>>]

At(list, index) ==
    IF index >= 0 /\ index < Len(list) THEN list[index + 1] ELSE Undefined

\* the answer to a GET of one part of a job by the visitor of a link
PartResponse(method, linkId, jobId, partIndex, session, mintFails) ==
         LET req == <<method, linkId, jobId, partIndex, session, mintFails>> IN
         IF method # "GET" THEN [op |-> "part", request |-> req, code |-> 405]
         ELSE IF linkId = "" THEN [op |-> "part", request |-> req, code |-> 400]
         ELSE IF session = "none" THEN [op |-> "part", request |-> req, code |-> 401]
         ELSE IF ViewerEmailOf(session) = "none" THEN [op |-> "part", request |-> req, code |-> 403]
         ELSE IF jobId \notin JobIds THEN [op |-> "part", request |-> req, code |-> 404]
         ELSE LET job == jobs[jobId]
                  parsed == ParseInt(partIndex)
                  index == parsed.n
              IN IF NotJobOwner(job, linkId, ViewerEmailOf(session))
                 THEN [op |-> "part", request |-> req, code |-> 403]
                 ELSE IF NotReadyCode(job) # 0
                 THEN [op |-> "part", request |-> req, code |-> NotReadyCode(job)]
                 ELSE IF PartIndexInvalid(parsed, Len(job.downloadUrls))
                 THEN [op |-> "part", request |-> req, code |-> 400]
                 ELSE IF /\ index + 1 <= Len(job.downloadS3Keys)
                         /\ job.downloadS3Keys[index + 1] # NoKeyInfo
                         /\ job.teamId # ""
                         /\ ~ mintFails
                 THEN [op |-> "part", request |-> req, code |-> 302,
                       location |-> GenerateFreshPresignedUrl(job.teamId,
                                        job.downloadS3Keys[index + 1],
                                        ThreeDaysInSeconds)]
                 ELSE [op |-> "part", request |-> req, code |-> 302,
                       location |-> At(job.downloadUrls, index)]

\* GET of one part of a job by the visitor of a link
PartDownload(method, linkId, jobId, partIndex, session, mintFails) ==
    /\ response' =
          PartResponse(method, linkId, jobId, partIndex, session, mintFails)
    /\ UNCHANGED <<conversion, notifVars, hour, jobs, dispatches, lambdaCalls, modal>>

\* an hour passes; a dispatch attempt lasts minutes, so none is under way
HourTick ==
    /\ hour < MaxHours
    /\ \A d \in 1..Len(dispatches) : dispatches[d].pc \in {"noop", "done"}
    /\ hour' = hour + 1
    /\ response' = [op |-> "none"]
    /\ UNCHANGED <<conversion, notifVars, jobs, dispatches, lambdaCalls, modal>>

\* ================================================== the conversion tasks
\* the tasks: convert-files-to-pdf as it is and as it was when it made its
\* first request with retry.fetch, convert-cad-to-pdf, convert-keynote-to-pdf
ConvertKinds == {"files", "files_retry_fetch", "cad", "keynote"}

DocxType ==
    "application/vnd.openxmlformats-officedocument.wordprocessingml.document"

\* the content types of the documents a task is given
ContentTypesOf(kind) ==
    CASE kind \in {"files", "files_retry_fetch"} ->
           {DocxType, "application/msword", "application/vnd.ms-excel"}
      [] kind = "cad" -> {"image/vnd.dwg"}
      [] kind = "keynote" -> {"application/vnd.apple.keynote"}

\* what a conversion request meets: an OK response, a 4xx or a 5xx response,
\* or no response (time-out, unreachable backend)
ConversionResults == {"ok", "4xx", "5xx", "unreachable"}

NoConversion ==
    [kind |-> "none", contentType |-> "none", attempt |-> 0, pc |-> "idle",
     calls |-> 0, waits |-> <<>>, last |-> "none",
     requests |-> 0, sanitized |-> 0, retries |-> 0,
     allRequests |-> 0, allSanitized |-> 0, allRetries |-> 0,
     primaryFailures |-> 0, file |-> "none",
     stored |-> FALSE, versionType |-> "original", imageTriggers |-> 0]

\* the first request is made with retry.fetch
UsesRetryFetch(kind) == kind \in {"files_retry_fetch", "cad", "keynote"}

\* the task has the sanitize-then-retry branch
HasFallback(kind) == kind \in {"files", "files_retry_fetch"}

\* a check that takes every Word document for a DOCX
IsDocxOrDoc(contentType) ==
    contentType \in {DocxType, "application/msword"}

\* isDocx
IsDocx(contentType) == contentType = DocxType

\* a retry.fetch that retries every failure response
RetryableAnyFailure(result) == result \in {"4xx", "5xx"}

\* byStatus: { "500-599": ... }
Retryable(result) == result = "5xx"

\* strategy "backoff", randomize false: the delay after the attempt-th call
Backoff(attempt) ==
    Min({MaxTimeoutInMs, MinTimeoutInMs * Factor ^ (attempt - 1)})

\* the task is triggered for a document version
ConvertStart(kind, contentType) ==
    /\ conversion.pc = "idle"
    /\ conversion' = [NoConversion EXCEPT
                        !.kind = kind, !.contentType = contentType,
                        !.attempt = 1, !.pc = "primary"]
    /\ UNCHANGED <<notifVars, jobVars, modal>>

\* the first conversion request of a run, and what the run does with its
\* result: fetch inside try/catch in convert-files-to-pdf, retry.fetch in the
\* other tasks, which rejects when there is no response
PrimaryConversion(result) ==
    /\ conversion.pc = "primary"
    /\ LET c == [conversion EXCEPT
                   !.calls = @ + 1, !.requests = @ + 1, !.allRequests = @ + 1,
                   !.last = result]
       IN conversion' =
             IF result = "ok"
             THEN [c EXCEPT !.pc = "converted", !.file = "primary"]
             ELSE IF /\ UsesRetryFetch(c.kind) /\ Retryable(result)
                     /\ c.calls < FetchMaxAttempts
             THEN [c EXCEPT !.waits = Append(@, Backoff(c.calls))]
             ELSE IF UsesRetryFetch(c.kind) /\ result = "unreachable"
             THEN [c EXCEPT !.pc = "thrown"]
             ELSE IF HasFallback(c.kind) /\ IsDocx(c.contentType)
             THEN [c EXCEPT !.pc = "fetch_docx", !.primaryFailures = @ + 1]
             ELSE [c EXCEPT !.pc = "thrown",
                            !.primaryFailures =
                                IF HasFallback(c.kind) THEN @ + 1 ELSE @]
    /\ UNCHANGED <<notifVars, jobVars, modal>>

\* what the download of the DOCX from its signed URL meets
DocxResults == {"ok", "non_ok", "unreachable", "bad_type"}

\* fetch(fileUrl) before the sanitizer; the checks of the response are those
\* of convert-files-to-pdf as it is
FetchDocx(result) ==
    /\ conversion.pc = "fetch_docx"
    /\ conversion' =
          IF \/ result = "ok"
             \/ conversion.kind = "files_retry_fetch" /\ result # "unreachable"
          THEN [conversion EXCEPT !.pc = "sanitize"]
          ELSE [conversion EXCEPT !.pc = "thrown"]
    /\ UNCHANGED <<notifVars, jobVars, modal>>

\* python.runScript of docx-sanitizer.py; the script can fail
Sanitize(ok) ==
    /\ conversion.pc = "sanitize"
    /\ conversion' = [conversion EXCEPT
                        !.sanitized = @ + 1, !.allSanitized = @ + 1,
                        !.pc = IF ok THEN "retry" ELSE "thrown"]
    /\ UNCHANGED <<notifVars, jobVars, modal>>

\* where the run is after the retry: it throws unless the response is OK
AfterRetry(result) ==
    IF result = "ok" THEN "converted" ELSE "thrown"

\* attemptConversion(outputPath): the request with the sanitized file
RetryConversion(result) ==
    /\ conversion.pc = "retry"
    /\ conversion' = [conversion EXCEPT
                        !.requests = @ + 1, !.allRequests = @ + 1,
                        !.retries = @ + 1, !.allRetries = @ + 1,
                        !.last = result,
                        !.pc = AfterRetry(result),
                        !.file = IF AfterRetry(result) = "converted"
                                 THEN "retry" ELSE @]
    /\ UNCHANGED <<notifVars, jobVars, modal>>

\* retry: { maxAttempts: 3 }: a run that threw is run again
TaskRetry ==
    /\ conversion.pc = "thrown"
    /\ conversion.attempt < ConvertMaxAttempts
    /\ conversion' = [conversion EXCEPT
                        !.attempt = @ + 1, !.pc = "primary",
                        !.calls = 0, !.waits = <<>>, !.last = "none",
                        !.requests = 0, !.sanitized = 0, !.retries = 0,
                        !.file = "none", !.stored = FALSE]
    /\ UNCHANGED <<notifVars, jobVars, modal>>

\* the last attempt threw: the task has failed
TaskFails ==
    /\ conversion.pc = "thrown"
    /\ conversion.attempt = ConvertMaxAttempts
    /\ conversion' = [conversion EXCEPT !.pc = "failed"]
    /\ UNCHANGED <<notifVars, jobVars, modal>>

\* the task is triggered for a team or a document version that the database
\* does not hold: the run logs and returns
ConvertNotFound(kind, missing) ==
    /\ conversion.pc = "idle"
    /\ conversion' = [NoConversion EXCEPT
                        !.kind = kind, !.attempt = 1,
                        !.pc = "returned", !.last = missing]
    /\ UNCHANGED <<notifVars, jobVars, modal>>

\* what putFileServer does with the converted file
SaveResults == {"ok", "no_data", "throws"}

\* a task that does not look at what putFileServer returned
AfterSaveUnchecked(result) ==
    IF result = "throws" THEN "thrown" ELSE "saved"

\* where the run is after putFileServer: it returns when there is no data
AfterSave(result) ==
    CASE result = "ok" -> "saved"
      [] result = "no_data" -> "returned"
      [] result = "throws" -> "thrown"

\* the converted file is saved
SaveFile(result) ==
    /\ conversion.pc = "converted"
    /\ conversion' = [conversion EXCEPT
                        !.pc = AfterSave(result),
                        !.stored = (result = "ok"),
                        !.last = result]
    /\ UNCHANGED <<notifVars, jobVars, modal>>

\* documentVersion.update: the version gets the saved file and the type pdf
UpdateVersion(ok) ==
    /\ conversion.pc = "saved"
    /\ conversion' =
          IF ok
          THEN [conversion EXCEPT !.pc = "updated", !.versionType = "pdf"]
          ELSE [conversion EXCEPT !.pc = "thrown", !.last = "update_throws"]
    /\ UNCHANGED <<notifVars, jobVars, modal>>

\* convertPdfToImageRoute.trigger
TriggerPdfToImage(ok) ==
    /\ conversion.pc = "updated"
    /\ conversion' =
          IF ok
          THEN [conversion EXCEPT !.pc = "done", !.imageTriggers = @ + 1]
          ELSE [conversion EXCEPT !.pc = "thrown", !.last = "trigger_throws"]
    /\ UNCHANGED <<notifVars, jobVars, modal>>

\* ---------------------------------------------- the export modal (client)
\* a start that does not look at the flag
ExportStartsUnguarded(started) == TRUE

\* the guard of startExport: a start goes on when no export has been started
ExportStarts(started) == ~ started

\* the component before its effect has run: the state, the refs, the timers
\* armed, the status requests that wait for their answer, and the record of
\* what each export did
NoModal ==
    [started |-> FALSE, showModal |-> FALSE, session |-> 1,
     runs |-> <<>>, creates |-> <<>>,
     clock |-> 0,
     current |-> 0,
     pollIntervalRef |-> 0,
     intervals |-> {},
     timeouts |-> {},
     inflight |-> [i \in 1..MaxStarts |-> 0],
     startTime |-> [i \in 1..MaxStarts |-> 0],
     clicks |-> [i \in 1..MaxStarts |-> 0],
     closes |-> [i \in 1..MaxStarts |-> 0],
     stoppedBy |-> [i \in 1..MaxStarts |-> [kind |-> "none", run |-> 0]],
     lastClose |-> [kind |-> "none", run |-> 0, victim |-> 0]]

\* the effect calls startExport
StartExport ==
    /\ Len(modal.runs) < MaxStarts
    /\ modal.clock \in ExportInstants
    /\ modal' =
         IF ExportStarts(modal.started)
         THEN [modal EXCEPT
                 !.started = TRUE,
                 !.showModal = TRUE,
                 !.current = Len(modal.runs) + 1,
                 !.runs = Append(@, [session |-> modal.session, pc |-> "viewcount"])]
         ELSE [modal EXCEPT
                 !.runs = Append(@, [session |-> modal.session, pc |-> "skipped"])]
    /\ UNCHANGED <<conversion, notifVars, jobVars>>

\* the view count is fetched; the export goes on whether it fails or not
FetchViewCount(i) ==
    /\ modal.runs[i].pc = "viewcount"
    /\ modal.clock \in ExportInstants
    /\ modal' = [modal EXCEPT !.runs[i].pc = "post"]
    /\ UNCHANGED <<conversion, notifVars, jobVars>>

\* if (pollIntervalRef.current) { clearInterval(...); ... = null }, done by
\* the event kind of the export run
Cleared(m, kind, run) ==
    IF m.pollIntervalRef = 0 THEN m
    ELSE [m EXCEPT
            !.intervals = { iv \in @ : iv.id # m.pollIntervalRef },
            !.stoppedBy[m.pollIntervalRef] = [kind |-> kind, run |-> run],
            !.pollIntervalRef = 0]

\* handleClose, called by the event kind of the export run
Closed(m, kind, run) ==
    [Cleared(m, kind, run) EXCEPT
        !.started = FALSE, !.showModal = FALSE, !.session = @ + 1,
        !.current = 0,
        !.lastClose = [kind |-> kind, run |-> run, victim |-> m.current]]

\* a timeout that leaves the interval running
ArmedWithoutTimeout(m, i) ==
    [Cleared(m, "restart", i) EXCEPT
        !.intervals = @ \cup {[id |-> i, next |-> m.clock + PollIntervalMs]},
        !.pollIntervalRef = i,
        !.startTime[i] = m.clock]

\* the end of startExport when the answer holds an exportId: the interval
\* that was there is cleared, the polling starts and the timeout is armed
Armed(m, i) ==
    [Cleared(m, "restart", i) EXCEPT
        !.intervals = @ \cup {[id |-> i, next |-> m.clock + PollIntervalMs]},
        !.pollIntervalRef = i,
        !.timeouts = @ \cup {[id |-> i, at |-> m.clock + PollTimeoutMs]},
        !.startTime[i] = m.clock]

\* the create request is sent; ok says whether the endpoint answers with a job
PostCreate(i, ok) ==
    /\ modal.runs[i].pc = "post"
    /\ modal.clock \in ExportInstants
    /\ ok => Len(jobs) < MaxJobs
    /\ LET sent == [modal EXCEPT !.creates = Append(@, modal.runs[i].session)]
           actor == CHOOSE a \in Actors : a.userId = "u1"
       IN IF ok
          THEN /\ jobs' = CreatedJobs(actor, "none", 1)
               /\ response' = [op |-> "create", code |-> 202, key |-> "none",
                               existing |-> FALSE, jobId |-> Len(jobs) + 1]
               /\ modal' = [Armed(sent, i) EXCEPT !.runs[i].pc = "polling"]
          ELSE /\ jobs' = jobs
               /\ response' = [op |-> "create", code |-> 500, key |-> "none",
                               existing |-> FALSE, jobId |-> 0]
               /\ modal' = [Closed(sent, "error", i) EXCEPT !.runs[i].pc = "ended"]
    /\ UNCHANGED <<conversion, notifVars, hour, dispatches, lambdaCalls>>

\* the user closes the modal
HandleClose ==
    /\ modal.showModal
    /\ modal' = Closed(modal, "user", modal.current)
    /\ UNCHANGED <<conversion, notifVars, jobVars>>

\* the answers to a status request: a failed request, and the states of the
\* export job
PollAnswers ==
    { [ok |-> FALSE, status |-> "none", isReady |-> FALSE],
      [ok |-> TRUE, status |-> "PENDING", isReady |-> FALSE],
      [ok |-> TRUE, status |-> "PROCESSING", isReady |-> FALSE],
      [ok |-> TRUE, status |-> "COMPLETED", isReady |-> FALSE],
      [ok |-> TRUE, status |-> "COMPLETED", isReady |-> TRUE],
      [ok |-> TRUE, status |-> "FAILED", isReady |-> FALSE] }

\* the interval of export i is due: its callback sends the status request
PollFire(i) ==
    /\ \E iv \in modal.intervals : iv.id = i /\ iv.next <= modal.clock
    /\ modal.inflight[i] < MaxInFlight
    /\ modal' = [modal EXCEPT
                   !.inflight[i] = @ + 1,
                   !.intervals =
                       { IF iv.id = i
                         THEN [iv EXCEPT !.next = @ + PollIntervalMs]
                         ELSE iv : iv \in @ }]
    /\ UNCHANGED <<conversion, notifVars, jobVars>>

\* the rest of the callback, when the status request of export i is answered
Polled(m, i, ans) ==
    LET back == [m EXCEPT !.inflight[i] = @ - 1]
    IN IF ans.ok /\ ans.status = "COMPLETED" /\ ans.isReady
       THEN [Closed(back, "completed", i) EXCEPT
               !.clicks[i] = @ + 1, !.closes[i] = @ + 1]
       ELSE IF ans.ok /\ ans.status = "FAILED"
       THEN [Closed(back, "failed", i) EXCEPT !.closes[i] = @ + 1]
       ELSE back

PollAnswer(i, ans) ==
    /\ modal.inflight[i] > 0
    /\ modal' = Polled(modal, i, ans)
    /\ UNCHANGED <<conversion, notifVars, jobVars>>

\* the timeout armed by export i is due
TimeoutFire(i) ==
    /\ \E t \in modal.timeouts : t.id = i /\ t.at <= modal.clock
    /\ modal' = [Closed(modal, "timeout", i) EXCEPT
                   !.timeouts = { t \in @ : t.id # i }]
    /\ UNCHANGED <<conversion, notifVars, jobVars>>

\* the times at which a timer of the component is due
DueTimes(m) ==
    { iv.next : iv \in m.intervals } \cup { t.at : t \in m.timeouts }

\* the time passes until the next timer is due
Advance ==
    /\ DueTimes(modal) # {}
    /\ \A d \in DueTimes(modal) : d > modal.clock
    /\ Min(DueTimes(modal)) <= MaxClock
    /\ modal' = [modal EXCEPT !.clock = Min(DueTimes(modal))]
    /\ UNCHANGED <<conversion, notifVars, jobVars>>

Init ==
    /\ now = 0
    /\ teamUsers \in TeamConfigs
    /\ uploads = <<>>
    /\ runs = <<>>
    /\ posts = <<>>
    /\ faults = 0
    /\ hour = 0
    /\ jobs = <<>>
    /\ dispatches = <<>>
    /\ lambdaCalls = [c \in (1..MaxJobs) \X (1..MaxParts) |-> 0]
    /\ response = [op |-> "none"]
    /\ modal = NoModal
    /\ conversion = NoConversion

\* a request that arrives when the requests before it have answered
UploadAlone(l, v) ==
    /\ \A u \in UploadIds : uploads[u].pc = "done"
    /\ Upload(l, v)

\* bursts of uploads over time, one request at a time through a link with
\* notifications on, and the notification runs they schedule; the scheduler
\* API answers every call of the upload route
Next ==
    \/ \E s \in BurstSessions : UploadAlone(s[1], s[2])
    \/ \E u \in UploadIds : ListRuns(u)
    \/ \E u \in UploadIds : CancelRuns(u)
    \/ \E u \in UploadIds : Trigger(u)
    \/ \E r \in RunIds : Enqueue(r)
    \/ \E r \in RunIds, reachable \in BOOLEAN : RunTask(r, reachable)
    \/ \E r \in RunIds : RunTaskThrows(r)
    \/ Tick
    \/ Sleep

Spec == Init /\ [][Next]_vars

\* upload requests that run concurrently, within the same 30 seconds, and
\* calls of the scheduler API that fail
NextRace ==
    \/ \E s \in Sessions : Upload(s[1], s[2])
    \/ \E u \in UploadIds : ListRuns(u)
    \/ \E u \in UploadIds : ListRunsFails(u)
    \/ \E u \in UploadIds : CancelRuns(u)
    \/ \E u \in UploadIds : Trigger(u)
    \/ \E u \in UploadIds : TriggerFails(u)

SpecRace == Init /\ [][NextRace]_vars

\* the requests tried on the listing: <<session user, method, jobs whose
\* minting fails>>
ListRequests ==
    { <<u, "GET", f>> : u \in {"u1", "u2"}, f \in {{}, JobIds} }
    \cup { <<"none", "GET", {}>>, <<"u3", "GET", {}>>, <<"u1", "POST", {}>> }

\* the requests tried on the part download: <<method, link, job, part index,
\* session, whether minting fails>>
PartRequests ==
    { <<"GET", "l1", j, x, "view1", FALSE>> :
        j \in JobIds, x \in {"0", "1", "2", "-1", "1abc", "abc"} }
    \cup { <<"GET", "l1", j, "0", "view1", TRUE>> : j \in JobIds }
    \cup { <<"GET", l, j, "0", "view1", FALSE>> : l \in {"l2", ""}, j \in JobIds }
    \cup { <<"GET", "l1", j, "0", v, FALSE>> :
        j \in JobIds, v \in {"none", "view0", "view2"} }
    \cup { <<"GET", "l1", 99, "0", "view1", FALSE>>,
           <<"POST", "l1", 1, "0", "view1", FALSE>> }

\* the answers of a backend that signs its URLs on the bucket or reports an
\* error of its own
SignedOrError ==
    { lam \in LambdaResults :
        \/ lam.kind = "ok" /\ VirtualHost(lam.url.host)
        \/ lam.kind = "error_message" }

InitJobs == Init /\ teamUsers = ActiveTeam

\* the download jobs over the hours: creation without a key, dispatch and
\* the read paths
NextJobs ==
    \/ \E a \in Actors : CreateJob(a, "none", MaxParts)
    \/ \E j \in JobIds : DispatchStart(j)
    \/ \E d \in 1..Len(dispatches), lam \in SignedOrError : DispatchInvoke(d, lam)
    \/ \E d \in 1..Len(dispatches) : DispatchFinish(d)
    \/ \E q \in ListRequests : ListJobs(q[1], q[2], q[3])
    \/ \E q \in PartRequests : PartDownload(q[1], q[2], q[3], q[4], q[5], q[6])
    \/ HourTick

SpecJobs == InitJobs /\ [][NextJobs]_vars

\* creation with and without a key and concurrent dispatch attempts, with
\* every answer the backend can give
NextDispatch ==
    \/ \E a \in Actors, k \in Keys, n \in 1..MaxParts : CreateJob(a, k, n)
    \/ \E j \in JobIds : DispatchStart(j)
    \/ \E d \in 1..Len(dispatches), lam \in LambdaResults : DispatchInvoke(d, lam)
    \/ \E d \in 1..Len(dispatches) : DispatchFinish(d)

SpecDispatch == InitJobs /\ [][NextDispatch]_vars

\* the export modal of the client, the jobs it and other callers create, and
\* their dispatch
NextExport ==
    \/ StartExport
    \/ \E i \in 1..Len(modal.runs) : FetchViewCount(i)
    \/ \E i \in 1..Len(modal.runs), ok \in BOOLEAN : PostCreate(i, ok)
    \/ HandleClose
    \/ \E a \in Actors, k \in Keys : CreateJob(a, k, 1)
    \/ \E j \in JobIds : DispatchStart(j)
    \/ \E d \in 1..Len(dispatches), lam \in SignedOrError : DispatchInvoke(d, lam)
    \/ \E d \in 1..Len(dispatches) : DispatchFinish(d)

SpecExport == InitJobs /\ [][NextExport]_vars

\* the listing of a dataroom of many jobs: the team user creates a job, other
\* actors create the later ones, and the hours pass
NextListing ==
    \/ \E a \in Actors :
          /\ a.userId = "u1" <=> jobs = <<>>
          /\ CreateJobUpTo(a, "none", 1, MaxStored)
    \/ \E q \in ListRequests : ListJobs(q[1], q[2], q[3])
    \/ HourTick

SpecListing == InitJobs /\ [][NextListing]_vars

\* long bursts of uploads of one viewer through one link, with a scheduler
\* and a notification endpoint that never fail
NextBurst ==
    \/ UploadAlone("l1", "v1")
    \/ \E u \in UploadIds : ListRuns(u)
    \/ \E u \in UploadIds : CancelRuns(u)
    \/ \E u \in UploadIds : Trigger(u)
    \/ \E r \in RunIds : Enqueue(r)
    \/ \E r \in RunIds : RunTask(r, TRUE)
    \/ \E gap \in BurstGaps : Pause(gap)
    \/ Sleep

SpecBurst == InitJobs /\ [][NextBurst]_vars

\* the export modal and its timers: the exports started in one component,
\* the status requests and their answers, and the time
NextPoll ==
    \/ StartExport
    \/ \E i \in 1..Len(modal.runs) : FetchViewCount(i)
    \/ \E i \in 1..Len(modal.runs), ok \in BOOLEAN : PostCreate(i, ok)
    \/ HandleClose
    \/ \E i \in 1..Len(modal.runs) : PollFire(i)
    \/ \E i \in 1..Len(modal.runs), ans \in PollAnswers : PollAnswer(i, ans)
    \/ \E i \in 1..Len(modal.runs) : TimeoutFire(i)
    \/ Advance

SpecPoll == InitJobs /\ [][NextPoll]_vars

\* the request the dispatcher sends to the download-batch processor
BatchCall ==
    [method |-> "POST",
     authorization |-> <<"Bearer", EnvInternalApiKey>>,
     hasParams |-> TRUE]

\* the answers of a backend whose URL is signed on the bucket or is one that
\* holds no object reference
AnyUrl == { lam \in LambdaResults : lam.kind = "ok" }

\* the URLs of the jobs: dispatch with every kind of URL, and the read paths
NextUrls ==
    \/ \E a \in Actors, parts \in 1..MaxParts : CreateJob(a, "none", parts)
    \/ \E j \in JobIds : DispatchStart(j)
    \/ \E d \in 1..Len(dispatches), lam \in AnyUrl : DispatchInvoke(d, lam)
    \/ \E d \in 1..Len(dispatches) : DispatchFinish(d)
    \/ \E q \in ListRequests : ListJobs(q[1], q[2], q[3])
    \/ \E q \in PartRequests : PartDownload(q[1], q[2], q[3], q[4], q[5], q[6])
    \/ \E lam \in AnyUrl : BatchRequest(BatchCall, lam)

SpecUrls == InitJobs /\ [][NextUrls]_vars

\* ------------------------------------------------ the parser alone
\* bucket names, with and without dots, keys with characters that are
\* escaped in a URL and with a ".." segment, and regions
Buckets == {"bucket1", "my.bucket", "logs.s3"}
ObjectKeys == {"exports/x.zip", "x.zip", "a b/100%.zip", "a/../x.zip"}
Regions == {"us-east-1", "eu-west-1"}
ObjectRefs == [bucket : Buckets, key : ObjectKeys, region : Regions]

\* hosts that address no object by any of the three shapes, and one that has
\* two of the shapes
OtherHosts ==
    { <<"cdn", "example", "com">>,
      <<"files", "example", "org">>,
      <<"s3", "amazonaws", "com">>,
      <<"amazonaws", "com">>,
      <<"bucket1", "s3", "us-east-1", "amazonaws", "org">>,
      <<"s3", "s3", "amazonaws", "com">> }

\* the URLs given to the parser: the three forms of every object reference,
\* the region-omitted one for the default region, and the other hosts
ParseInputs ==
    { [op |-> "url", form |-> "path", ref |-> ref, url |-> PathStyleUrl(ref)] :
        ref \in ObjectRefs }
    \cup { [op |-> "url", form |-> "virtual", ref |-> ref,
            url |-> VirtualHostedUrl(ref)] : ref \in ObjectRefs }
    \cup { [op |-> "url", form |-> "virtual_no_region", ref |-> ref,
            url |-> VirtualHostedNoRegionUrl(ref)] :
              ref \in { r \in ObjectRefs : r.region = "us-east-1" } }
    \cup { [op |-> "url", form |-> "other", ref |-> NoKeyInfo,
            url |-> [host |-> h, path |-> <<"exports", "x.zip">>]] :
              h \in OtherHosts }

InitParse ==
    /\ now = 0
    /\ teamUsers = ActiveTeam
    /\ uploads = <<>>
    /\ runs = <<>>
    /\ posts = <<>>
    /\ faults = 0
    /\ hour = 0
    /\ jobs = <<>>
    /\ dispatches = <<>>
    /\ lambdaCalls = [c \in (1..MaxJobs) \X (1..MaxParts) |-> 0]
    /\ response \in ParseInputs
    /\ modal = NoModal
    /\ conversion = NoConversion

\* the parser is applied to the URL
ParseUrl ==
    /\ response.op = "url"
    /\ response' = [response EXCEPT !.op = "parsed"]
                      @@ [info |-> ParseS3PresignedUrl(response.url)]
    /\ UNCHANGED <<conversion, notifVars, hour, jobs, dispatches, lambdaCalls, modal>>

NextParse == ParseUrl

SpecParse == InitParse /\ [][NextParse]_vars

\* the errors of the backend and of the store, and the read paths
NextErrors ==
    \/ \E a \in Actors : CreateJob(a, "none", 1)
    \/ \E j \in JobIds : DispatchStart(j)
    \/ \E d \in 1..Len(dispatches), lam \in SignedOrError : DispatchInvoke(d, lam)
    \/ \E d \in 1..Len(dispatches) : DispatchFinish(d)
    \/ \E q \in ListRequests : ListJobs(q[1], q[2], q[3])
    \/ \E u \in {"u1", "u3"} : ListJobsFails(u)
    \/ \E q \in PartRequests : PartDownload(q[1], q[2], q[3], q[4], q[5], q[6])

SpecErrors == InitJobs /\ [][NextErrors]_vars

\* the requests to the download-batch processor that are answered before the
\* backend, and one that is passed on
RefusedOrPassed ==
    [method : {"POST", "GET"},
     authorization : {<<"Bearer", EnvInternalApiKey>>, <<"Bearer", "wrong">>},
     hasParams : BOOLEAN]

\* the upload route under any request, with the notification steps of the
\* requests it accepts, and the download-batch processor
NextReject ==
    \/ \E req \in UploadRequests : UploadRequest(req)
    \/ \E u \in UploadIds : ListRuns(u)
    \/ \E u \in UploadIds : CancelRuns(u)
    \/ \E u \in UploadIds : Trigger(u)
    \/ \E req \in RefusedOrPassed, lam \in SignedOrError : BatchRequest(req, lam)

SpecReject == InitJobs /\ [][NextReject]_vars

\* the conversion tasks
NextConvert ==
    \/ \E kind \in ConvertKinds :
          \E contentType \in ContentTypesOf(kind) :
             ConvertStart(kind, contentType)
    \/ \E result \in ConversionResults : PrimaryConversion(result)
    \/ \E result \in DocxResults : FetchDocx(result)
    \/ \E ok \in BOOLEAN : Sanitize(ok)
    \/ \E result \in ConversionResults : RetryConversion(result)
    \/ TaskRetry
    \/ TaskFails

SpecConvert == InitJobs /\ [][NextConvert]_vars

\* the conversion tasks from the lookups to the trigger of pdf-to-image
NextSteps ==
    \/ \E kind \in ConvertKinds :
          \E contentType \in ContentTypesOf(kind) :
             ConvertStart(kind, contentType)
    \/ \E kind \in ConvertKinds, missing \in {"team", "document"} :
          ConvertNotFound(kind, missing)
    \/ \E result \in ConversionResults : PrimaryConversion(result)
    \/ \E result \in DocxResults : FetchDocx(result)
    \/ \E ok \in BOOLEAN : Sanitize(ok)
    \/ \E result \in ConversionResults : RetryConversion(result)
    \/ \E result \in SaveResults : SaveFile(result)
    \/ \E ok \in BOOLEAN : UpdateVersion(ok)
    \/ \E ok \in BOOLEAN : TriggerPdfToImage(ok)
    \/ TaskRetry
    \/ TaskFails

SpecSteps == InitJobs /\ [][NextSteps]_vars

\* the internal endpoints, asked by any caller
NextInternal ==
    \/ \E req \in InternalRequests, mailOk \in BOOLEAN :
          NotifyRequest(req, mailOk)
    \/ \E req \in InternalRequests, lam \in BackendAnswers :
          BatchRequest(req, lam)

SpecInternal == InitJobs /\ [][NextInternal]_vars

\* direct requests to the two internal endpoints, with INTERNAL_API_KEY set
\* and not set
NextEnv ==
    \/ \E key \in Environments, req \in InternalRequests, mailOk \in BOOLEAN :
          NotifyRequestIn(key, req, mailOk)
    \/ \E key \in Environments, req \in InternalRequests, lam \in BackendAnswers :
          BatchRequestIn(key, req, lam)

SpecEnv == InitJobs /\ [][NextEnv]_vars

\* ======================================================== the properties
SameTags(a, b) ==
    /\ uploads[a].dataroomId = uploads[b].dataroomId
    /\ uploads[a].linkId = uploads[b].linkId
    /\ uploads[a].viewerId = uploads[b].viewerId

UploadTags(u) ==
    RequiredTags(uploads[u].dataroomId, uploads[u].linkId, uploads[u].viewerId)

RunOf(u) == runs[uploads[u].run]

\* a, b and c are three uploads of one tag set that arrive 30 seconds apart,
\* and no other upload of the tag set arrives from a until c's run is due
Burst3(a, b, c) ==
    /\ SameTags(a, b) /\ SameTags(b, c)
    /\ uploads[b].uploadedAt = uploads[a].uploadedAt + 1
    /\ uploads[c].uploadedAt = uploads[b].uploadedAt + 1
    /\ \A d \in UploadIds \ {a, b, c} :
         SameTags(d, a) =>
            \/ uploads[d].uploadedAt < uploads[a].uploadedAt
            \/ uploads[d].uploadedAt > uploads[c].uploadedAt + NotificationDelay

\* C1: of three uploads of one tag set arriving 30 seconds apart, the runs of
\* the first and the second never execute and are cancelled once the third
\* request has answered, and the run of the third executes, exactly 5 minutes
\* after the third upload: one trigger fires.
C1_DebounceTiming ==
    \A a, b, c \in UploadIds :
        Burst3(a, b, c) =>
            /\ \A u \in {a, b} :
                 uploads[u].pc = "done" => RunOf(u).attempts = 0
            /\ uploads[c].pc = "done" =>
                 /\ RunOf(a).status = "CANCELED"
                 /\ RunOf(b).status = "CANCELED"
                 /\ uploads[c].run \notin {uploads[a].run, uploads[b].run}
                 /\ now < uploads[c].uploadedAt + NotificationDelay
                        => RunOf(c).status = "DELAYED"
                 /\ RunOf(c).attempts > 0
                        => RunOf(c).ranAt = uploads[c].uploadedAt + NotificationDelay
                 /\ now > uploads[c].uploadedAt + NotificationDelay
                        => RunOf(c).attempts > 0

C1_Witness ==
    \E a, b, c \in UploadIds :
        /\ Burst3(a, b, c)
        /\ uploads[c].pc = "done"
        /\ RunOf(c).status = "COMPLETED"
        /\ RunOf(c).outcome = "sent"
        /\ RunOf(a).status = "CANCELED"
        /\ RunOf(b).status = "CANCELED"

\* C2: once every upload request has finished, no two live (DELAYED or
\* QUEUED) runs carry the same (dataroom, link, viewer) tag set.
C2_NoTwoLiveTriggers ==
    (\A u \in UploadIds : uploads[u].pc = "done") =>
        \A r1, r2 \in RunIds :
            (r1 # r2 /\ Live(r1) /\ Live(r2)) =>
                runs[r1].payload # runs[r2].payload

\* C3: a run is cancelled only by an upload whose three required tags the run
\* all carries, although the listing returns runs carrying any one of them.
C3_CancelOnlyFullMatch ==
    [][\A r \in RunIds :
          (runs[r].status # "CANCELED" /\ runs'[r].status = "CANCELED") =>
             \E u \in UploadIds :
                /\ uploads[u].pc = "cancel"
                /\ uploads'[u].pc = "trigger"
                /\ UploadTags(u) \subseteq runs[r].tags]_vars

C3_Witness ==
    \E u \in UploadIds :
        /\ uploads[u].pc = "trigger"
        /\ uploads[u].matchingRuns # {}
        /\ uploads[u].allRuns \ uploads[u].matchingRuns # {}
        /\ \A r \in uploads[u].matchingRuns : runs[r].status = "CANCELED"
        /\ \A r \in uploads[u].allRuns \ uploads[u].matchingRuns : Live(r)

\* C4: a request that has cancelled the pending run of its tag set never ends
\* without a pending run for that tag set (a failed scheduling is retried).
C4_RescheduleNotAbandoned ==
    [][\A u \in UploadIds :
          (/\ uploads[u].pc = "trigger"
           /\ uploads'[u].pc = "done"
           /\ \E r \in uploads[u].matchingRuns : runs[r].status = "CANCELED") =>
             \E r \in 1..Len(runs') :
                /\ runs'[r].status \in {"DELAYED", "QUEUED"}
                /\ UploadTags(u) \subseteq runs'[r].tags]_vars

\* C5: the triggers that two uploads of one (dataroom, link, viewer)
\* correlation schedule collapse to one run when they are pending together:
\* they carry the same idempotency key.
C5_RacingTriggersCollapse ==
    \A u1, u2 \in UploadIds :
        (/\ u1 # u2
         /\ SameTags(u1, u2)
         /\ uploads[u1].triggered = "yes"
         /\ uploads[u2].triggered = "yes"
         /\ Live(uploads[u1].run)
         /\ Live(uploads[u2].run)) =>
            RunOf(u1).idempotencyKey = RunOf(u2).idempotencyKey

\* C6: the document list of a notification holds every upload of the run's
\* (dataroom, link, viewer) made within the 10 minutes before the run
\* executed, whichever upload scheduled the run.
C6_AllRecentUploadsListed ==
    \A i \in 1..Len(posts) :
        \A u \in UploadIds :
            (/\ uploads[u].dataroomId = runs[posts[i].run].payload.dataroomId
             /\ uploads[u].linkId = runs[posts[i].run].payload.linkId
             /\ uploads[u].viewerId = runs[posts[i].run].payload.viewerId
             /\ uploads[u].uploadedAt >= posts[i].at - Lookback
             /\ uploads[u].uploadedAt < posts[i].at) =>
                u \in posts[i].documentNames

C6_Witness ==
    \E i \in 1..Len(posts) :
        \E u \in posts[i].documentNames :
            /\ uploads[u].run # posts[i].run
            /\ uploads[u].uploadedAt < uploads[CHOOSE w \in UploadIds :
                                                  uploads[w].run = posts[i].run].uploadedAt

\* C7: a run that finds no active ADMIN of the team ends without a request to
\* the notification endpoint and as a completed run, which is not retried.
NoActiveAdmin ==
    ~ \E m \in teamUsers : m.role = "ADMIN" /\ m.status = "ACTIVE"

C7_NoAdminNoSend ==
    /\ NoActiveAdmin => posts = <<>>
    /\ \A r \in RunIds :
         (NoActiveAdmin /\ runs[r].attempts > 0 /\ runs[r].outcome # "threw") =>
            /\ runs[r].outcome = "no_admin"
            /\ runs[r].status = "COMPLETED"
    /\ \A r \in RunIds :
         runs[r].outcome = "no_admin" =>
            /\ NoActiveAdmin
            /\ runs[r].status = "COMPLETED"
            /\ \A i \in 1..Len(posts) : posts[i].run # r

C7_Witness ==
    \E r \in RunIds :
        /\ runs[r].outcome = "no_admin"
        /\ runs[r].status = "COMPLETED"
        /\ runs[r].ranAt = runs[r].delayUntil

\* ------------------------------------------------------- the download jobs
Rank(status) ==
    CASE status = "PENDING" -> 0
      [] status = "PROCESSING" -> 1
      [] OTHER -> 2

Terminal(status) == status \in {"COMPLETED", "FAILED"}

\* the attempts to dispatch job j
AttemptsOn(j) == { d \in 1..Len(dispatches) : dispatches[d].job = j }

RECURSIVE PartCalls(_, _)
PartCalls(j, n) ==
    IF n = 0 THEN 0 ELSE lambdaCalls[<<j, n>>] + PartCalls(j, n - 1)

\* the invocations of the backend for job j, all parts together
Invocations(j) == PartCalls(j, MaxParts)

\* C8: the status of a job only moves forward along PENDING, PROCESSING, then
\* COMPLETED or FAILED: no step of dispatch, listing, re-minting or part
\* download takes a job back to an earlier status, and a job that is COMPLETED
\* or FAILED keeps that status for good.
C8_StatusMonotonic ==
    [][\A j \in JobIds :
          /\ j <= Len(jobs')
          /\ Rank(jobs'[j].status) >= Rank(jobs[j].status)
          /\ Terminal(jobs[j].status) => jobs'[j].status = jobs[j].status]_vars

\* a completed job that a listing has just answered with re-minted URLs,
\* next to a failed job
C8_Witness ==
    /\ response.op = "list" /\ response.code = 200
    /\ \E j \in JobIds :
          /\ jobs[j].status = "COMPLETED"
          /\ j \in DOMAIN response.jobs
          /\ "expiresIn" \in DOMAIN response.jobs[j].downloadUrls[1]
    /\ \E j \in JobIds : jobs[j].status = "FAILED"

C10_IdempotentCreate ==
    /\ \A j, k \in JobIds :
          jobs[j].key # "none" /\ jobs[j].key = jobs[k].key => j = k
    /\ response.op = "create" /\ response.code = 202 /\ response.key # "none" =>
          /\ response.jobId \in JobIds
          /\ jobs[response.jobId].key = response.key
    /\ \A j \in JobIds : Invocations(j) <= 1
    /\ \A a, b \in 1..Len(modal.creates) :
          modal.creates[a] = modal.creates[b] => a = b

\* a second create request with the key of a dispatched job has been answered
\* with that job, and a second start of the export in the same open modal was
\* skipped while the first one sent its create request
C10_Witness ==
    /\ response.op = "create" /\ response.key # "none" /\ response.existing
    /\ Invocations(response.jobId) = 1
    /\ \E a, b \in 1..Len(modal.runs) :
          /\ modal.runs[a].session = modal.runs[b].session
          /\ modal.runs[a].pc = "polling"
          /\ modal.runs[b].pc = "skipped"

\* ------------------------------------------------------------ the listing
\* the visibility rule: what the owner of a job sees of it
Visible(job) ==
    \/ job.status \in {"PENDING", "PROCESSING"}
    \/ job.status = "COMPLETED" /\ hour < job.expiresAt
    \/ job.status = "FAILED" /\ job.createdAt > hour - FailedWindow

\* the listing has just answered 200
Listed == response.op = "list" /\ response.code = 200

\* C11: among the jobs of the requesting user the listing returns a job if and
\* only if it is PENDING or PROCESSING, or COMPLETED with now < expiresAt, or
\* FAILED and created less than one hour ago.
C11_ListingVisibility ==
    Listed =>
       \A j \in JobIds :
          jobs[j].userId = response.request[1] =>
             (j \in DOMAIN response.jobs <=> Visible(jobs[j]))

\* C12: a PENDING job of the requesting user is in the listing of its
\* dataroom, whatever its age.
C12_PendingAlwaysListed ==
    Listed =>
       \A j \in JobIds :
          (jobs[j].userId = response.request[1] /\ jobs[j].status = "PENDING")
             => j \in DOMAIN response.jobs

\* C13: every job of a 200 answer of the listing belongs to the session user,
\* whatever its status or expiry; a request without a session is answered 401
\* and one of a user outside the team 403, and neither answer holds a job.
C13_OnlyOwnJobsListed ==
    response.op = "list" =>
       /\ response.code = 200 =>
             \A j \in DOMAIN response.jobs :
                /\ j \in JobIds
                /\ jobs[j].userId = response.request[1]
                /\ response.jobs[j].userId = response.request[1]
       /\ response.request[1] = "none" => response.code = 401
       /\ (response.request[1] \notin {"none", "u1", "u2"}
             /\ response.request[2] = "GET") => response.code = 403
       /\ response.code # 200 => "jobs" \notin DOMAIN response

\* the team user has been shown a job of their own while the store holds the
\* job of another actor
C13_Witness ==
    /\ Listed
    /\ DOMAIN response.jobs # {}
    /\ \E j \in JobIds : jobs[j].userId # response.request[1]

\* ------------------------------------------------------ the part download
\* the part download has just answered
Part == response.op = "part"

\* the job the request names, when the store holds it
PartJob == jobs[response.request[3]]

\* the request is a GET of the visitor who owns the job it names
PartOwner ==
    /\ response.request[1] = "GET"
    /\ response.request[3] \in JobIds
    /\ ViewerEmailOf(response.request[5]) # "none"
    /\ PartJob.linkId = response.request[2]
    /\ NormalizeEmail(PartJob.viewerEmail)
          = NormalizeEmail(ViewerEmailOf(response.request[5]))

\* the job of the request is completed and holds URLs
PartReady ==
    PartJob.status = "COMPLETED" /\ Len(PartJob.downloadUrls) > 0

\* the texts that are integers, and their values
IntegerTexts == {"0", "1", "2", "-1"}

IntegerOf(text) ==
    CASE text = "0" -> 0
      [] text = "1" -> 1
      [] text = "2" -> 2
      [] OTHER -> 0 - 1

\* C14: an index whose leading integer, as parseInt reads it, is missing or
\* outside [0, number of parts) is answered 400, and a redirect goes to the
\* URL stored or minted for an index inside both lists' reach: nothing is
\* read past the end of the URLs.
C14_IndexInRange ==
    Part =>
       /\ (/\ PartOwner /\ PartReady
           /\ \/ ParseInt(response.request[4]).nan
              \/ ParseInt(response.request[4]).n < 0
              \/ ParseInt(response.request[4]).n >= Len(PartJob.downloadUrls))
             => response.code = 400
       /\ response.code = 302 =>
             /\ ParseInt(response.request[4]).n \in 0..(Len(PartJob.downloadUrls) - 1)
             /\ response.location # Undefined

\* an index just past the last part of a completed job of two parts was
\* answered 400 to the owner
C14_Witness ==
    /\ Part /\ PartOwner /\ PartReady
    /\ Len(PartJob.downloadUrls) = 2
    /\ response.request[4] = "2"
    /\ response.code = 400

\* C14 as stated: every index that is not an integer in [0, number of parts),
\* a non-numeric text included, is answered 400.
C14_NonIntegerRejected ==
    (/\ Part /\ PartOwner /\ PartReady
     /\ \/ response.request[4] \notin IntegerTexts
        \/ IntegerOf(response.request[4]) < 0
        \/ IntegerOf(response.request[4]) >= Len(PartJob.downloadUrls))
       => response.code = 400

\* C15: a GET for a job of the store by a session that is not the job's owning
\* actor (the link of the request is not the job's, or the e-mail address of
\* the session's view is not, after trimming and lower-casing, the job's) is
\* answered 403; a redirect is issued to the owning actor only.
C15_NonOwnerForbidden ==
    Part =>
       /\ (/\ response.request[1] = "GET"
           /\ response.request[2] # ""
           /\ response.request[5] # "none"
           /\ response.request[3] \in JobIds
           /\ ~ PartOwner) => response.code = 403
       /\ response.code = 302 => PartOwner

\* another viewer of the job's link has asked for a part of a completed job
\* and got 403
C15_Witness ==
    /\ Part /\ response.code = 403
    /\ response.request[3] \in JobIds
    /\ PartJob.status = "COMPLETED"
    /\ PartJob.linkId = response.request[2]
    /\ ViewerEmailOf(response.request[5]) = "v2@x.io"

\* a job id that no job of the store has
UnknownJobId == 99

\* C16: to a viewer who does not own a job, the answer for the id of that job
\* cannot be told from the answer for an id that no job has.
C16_DenialHidesExistence ==
    \A j \in JobIds, v \in {"view1", "view2"}, l \in {"l1", "l2"} :
       NotJobOwner(jobs[j], l, ViewerEmailOf(v)) =>
          PartResponse("GET", l, j, "0", v, FALSE).code
             = PartResponse("GET", l, UnknownJobId, "0", v, FALSE).code

\* C17: the owner's request for a part of a job that is PENDING, PROCESSING
\* or FAILED, or that holds no URL, is answered 400; no request for such a
\* job is answered with a redirect.
C17_NotReadyRejected ==
    Part =>
       /\ (PartOwner /\ ~ PartReady) => response.code = 400
       /\ response.code = 302 =>
             response.request[3] \in JobIds /\ PartReady

\* the owner has asked for a part of a job that failed and got 400
C17_Witness ==
    /\ Part /\ PartOwner
    /\ PartJob.status = "FAILED"
    /\ response.code = 400

\* ------------------------------------------------------------- the URLs
\* the URL minted for an object reference
Fresh(teamId, s3Key) ==
    GenerateFreshPresignedUrl(teamId, s3Key, ThreeDaysInSeconds)

\* every part of the job has an object reference
AllKeys(job) ==
    \A i \in 1..Len(job.downloadS3Keys) : job.downloadS3Keys[i] # NoKeyInfo

\* C18: the owner's request for a part of a completed job with a valid index
\* is answered 302, to the freshly minted URL when the part has an object
\* reference and minting succeeds, to the stored URL of the same index
\* otherwise; the listing answers 200 with the fresh URLs of a completed job
\* when minting them succeeds and with its stored URLs when it fails.
C18_MintThenFallBack ==
    /\ (/\ Part /\ PartOwner /\ PartReady
        /\ ~ PartIndexInvalid(ParseInt(response.request[4]),
                              Len(PartJob.downloadUrls))) =>
          LET n == ParseInt(response.request[4]).n + 1
          IN /\ response.code = 302
             /\ response.location =
                  IF /\ ~ response.request[6]
                     /\ PartJob.downloadS3Keys[n] # NoKeyInfo
                  THEN Fresh(PartJob.teamId, PartJob.downloadS3Keys[n])
                  ELSE PartJob.downloadUrls[n]
    /\ Listed =>
          \A j \in DOMAIN response.jobs :
             response.jobs[j].downloadUrls =
                IF /\ jobs[j].status = "COMPLETED"
                   /\ j \notin response.request[3]
                   /\ AllKeys(jobs[j])
                THEN [i \in 1..Len(jobs[j].downloadS3Keys) |->
                         Fresh("t1", jobs[j].downloadS3Keys[i])]
                ELSE jobs[j].downloadUrls

\* the owner has been redirected to the stored URL of a part that has no
\* object reference
C18_Witness ==
    /\ Part /\ PartOwner /\ response.code = 302
    /\ PartJob.downloadS3Keys[ParseInt(response.request[4]).n + 1] = NoKeyInfo
    /\ response.location = PartJob.downloadUrls[ParseInt(response.request[4]).n + 1]

\* the URLs and the object references of a job are as many, and the reference
\* of each part is the one its URL parses to
Aligned(job) ==
    (Len(job.downloadUrls) > 0 /\ Len(job.downloadS3Keys) > 0) =>
       /\ Len(job.downloadUrls) = Len(job.downloadS3Keys)
       /\ \A i \in 1..Len(job.downloadUrls) :
             \/ job.downloadS3Keys[i] = ParseS3PresignedUrl(job.downloadUrls[i])
             \/ job.downloadS3Keys[i] = NoKeyInfo

\* C19: the URL list and the object-reference list of every job have the same
\* length and are index-aligned whenever both are non-empty: in the store
\* after completion, a part whose URL holds no object reference included, and
\* in the answer of the listing, where fresh URLs replace the stored ones.
C19_UrlsAligned ==
    /\ \A j \in JobIds :
          /\ Aligned(jobs[j])
          /\ \A i \in 1..Len(jobs[j].downloadS3Keys) :
                jobs[j].downloadS3Keys[i]
                   = ParseS3PresignedUrl(jobs[j].downloadUrls[i])
    /\ Listed => \A j \in DOMAIN response.jobs : Aligned(response.jobs[j])

\* the listing has answered with the fresh URLs of a completed job of two
\* parts, and the store holds a completed job with a part that has no object
\* reference
C19_Witness ==
    /\ Listed
    /\ \E j \in DOMAIN response.jobs :
          /\ Len(response.jobs[j].downloadUrls) = 2
          /\ "expiresIn" \in DOMAIN response.jobs[j].downloadUrls[2]
    /\ \E j \in JobIds :
          /\ jobs[j].status = "COMPLETED"
          /\ \E i \in 1..Len(jobs[j].downloadS3Keys) :
                jobs[j].downloadS3Keys[i] = NoKeyInfo

\* the token of a request: the second word of its Authorization header
Internal == response.op \in {"notify", "batch"}
SecondWord(words) == IF Len(words) >= 2 THEN words[2] ELSE "undefined"
WrongToken == SecondWord(response.request.authorization) # EnvInternalApiKey

\* C20: a request to the notification endpoint or to the download-batch
\* processor whose bearer token differs from INTERNAL_API_KEY sends no email
\* and invokes no backend, and when it is a POST (the method is checked
\* first, a request of another method gets 405) it is answered 401.
C20_WrongTokenRefused ==
    (Internal /\ WrongToken) =>
        /\ response.emails = 0
        /\ response.invocations = 0
        /\ response.request.method = "POST" => response.code = 401

\* a POST with every parameter and the secret as the only word of its header
\* is answered 401 by the download-batch processor
C20_Witness ==
    /\ response.op = "batch"
    /\ response.request = [method |-> "POST",
                           authorization |-> <<EnvInternalApiKey>>,
                           hasParams |-> TRUE]
    /\ response.code = 401
    /\ response.invocations = 0
\* a request the download-batch processor passes on to the backend
Passed ==
    /\ response.op = "batch"
    /\ response.request.method = "POST"
    /\ ~ WrongToken
    /\ response.request.hasParams

\* C21: when the backend returns no payload, a payload with errorMessage, or
\* malformed JSON (payload or body), the download-batch processor answers 500
\* with the message of the failure (the backend's errorMessage after
\* "Lambda error: ") and never 200 with a downloadUrl.
C21_InvalidAnswerIsError ==
    (Passed /\ response.backend.kind \in
                 {"no_payload", "error_message", "bad_json", "bad_body"}) =>
        /\ response.code = 500
        /\ response.body.downloadUrl = <<>>
        /\ response.body.details # ""
        /\ response.backend.kind = "error_message" =>
              response.body.details =
                 "Lambda error: " \o BackendMessage(response.backend)

\* the backend reported an error of its own and the caller got it with a 500
C21_Witness ==
    /\ Passed
    /\ response.backend.kind = "error_message"
    /\ response.code = 500
    /\ response.body.details = "Lambda error: Task timed out after 300.00 seconds"
\* the host of the URL has none of the shapes the parser knows
ForeignHost(url) ==
    ~ (PathStyleHost(url.host) \/ VirtualHost(url.host)
          \/ VirtualNoRegionHost(url.host))

\* C22: when the backend's download URL cannot be parsed into an object
\* reference, the download-batch processor still answers 200 with that URL
\* unchanged and no object reference, and the owner's later download of a
\* part that has no object reference is redirected to the stored URL as it
\* is.
C22_ParseFailureNotFatal ==
    /\ (Passed /\ response.backend.kind = "ok"
           /\ ForeignHost(response.backend.url)) =>
          /\ response.code = 200
          /\ response.body.downloadUrl = response.backend.url
          /\ response.body.s3KeyInfo = NoKeyInfo
    /\ (/\ Part /\ PartOwner /\ PartReady
        /\ ~ PartIndexInvalid(ParseInt(response.request[4]),
                              Len(PartJob.downloadUrls))
        /\ PartJob.downloadS3Keys[ParseInt(response.request[4]).n + 1]
              = NoKeyInfo) =>
          /\ response.code = 302
          /\ response.location
                = PartJob.downloadUrls[ParseInt(response.request[4]).n + 1]

\* a job completed with a URL of a foreign host, and its owner redirected to
\* that URL
C22_Witness ==
    /\ Part /\ PartOwner /\ response.code = 302
    /\ ForeignHost(response.location)
    /\ "expiresIn" \notin DOMAIN response.location
    /\ \E i \in 1..Len(PartJob.downloadUrls) :
          /\ PartJob.downloadUrls[i] = response.location
          /\ PartJob.downloadS3Keys[i] = NoKeyInfo
\* ------------------------------------------------------------ the parser
\* the parser has answered for a URL that addresses an object
Parsed == response.op = "parsed"

\* C23: for every bucket, key and region, the URL that addresses them in
\* path-style form, in virtual-hosted form, and (for the default region) in
\* region-omitted virtual-hosted form parses to exactly that bucket, key and
\* region.
C23_RoundTrip ==
    (Parsed /\ response.form # "other") => response.info = response.ref

\* the round trip of the references whose bucket does not end with the label
\* s3 and whose key has no ".." segment
RoundTripPlain ==
    (/\ Parsed /\ response.form # "other"
     /\ response.ref.bucket # "logs.s3"
     /\ response.ref.key # "a/../x.zip") => response.info = response.ref

\* C24: the parser answers by the first shape the host has, in the order
\* path-style, virtual-hosted with a region, virtual-hosted without a region;
\* the region of the region-omitted shape is us-east-1, and a URL whose host
\* has none of the three shapes gets the error, with no object reference.
C24_ThreeShapesInOrder ==
    Parsed =>
       LET host == response.url.host
           n == Len(host)
       IN /\ PathStyleHost(host) =>
                /\ response.info.region = host[2]
                /\ response.info.bucket = response.url.path[1]
          /\ (~ PathStyleHost(host) /\ VirtualHost(host)) =>
                /\ response.info.region = host[n - 2]
                /\ response.info.bucket = Join(SubSeq(host, 1, n - 4), ".")
          /\ (/\ ~ PathStyleHost(host) /\ ~ VirtualHost(host)
              /\ VirtualNoRegionHost(host)) =>
                /\ response.info.region = "us-east-1"
                /\ response.info.bucket = Join(SubSeq(host, 1, n - 3), ".")
          /\ ForeignHost(response.url) <=> response.info = NoKeyInfo

\* a host of two shapes, the one with a region and the region-omitted one,
\* parsed as the one with a region
C24_Witness ==
    /\ Parsed
    /\ VirtualHost(response.url.host)
    /\ VirtualNoRegionHost(response.url.host)
    /\ response.info.region = "s3"
\* ------------------------------------------------------- the scenario
\* the URL of the scenario, on the storage host the parser knows, and the
\* object it addresses
ScenarioUrl ==
    [host |-> <<"bucket1", "s3", "us-east-1", "amazonaws", "com">>,
     path |-> <<"exports", "x.zip">>]

ScenarioRef ==
    [bucket |-> "bucket1", key |-> "exports/x.zip", region |-> "us-east-1"]

\* C25: a job completed from backend answers whose downloadUrl is the URL of
\* exports/x.zip in bucket1, region us-east-1, holds that object reference
\* for each part, and its owner's download of such a part, when minting
\* succeeds, is answered 302 to a URL minted for that object with an expiry
\* of three days and a content-disposition that names x.zip, the
\* percent-encoded last segment of the key.
C25_EndToEnd ==
    /\ \A j \in JobIds :
          jobs[j].status = "COMPLETED" =>
             \A i \in 1..Len(jobs[j].downloadUrls) :
                jobs[j].downloadUrls[i] = ScenarioUrl =>
                   jobs[j].downloadS3Keys[i] = ScenarioRef
    /\ (/\ Part /\ PartOwner /\ PartReady
        /\ ~ PartIndexInvalid(ParseInt(response.request[4]),
                              Len(PartJob.downloadUrls))
        /\ ~ response.request[6]
        /\ PartJob.downloadUrls[ParseInt(response.request[4]).n + 1]
              = ScenarioUrl) =>
          /\ response.code = 302
          /\ response.location.host = ScenarioUrl.host
          /\ response.location.path = ScenarioUrl.path
          /\ response.location.expiresIn = 3 * 24 * 60 * 60
          /\ response.location.disposition = "attachment; filename=\"x.zip\""

\* the job of one part of the scenario, and its owner redirected for index 0
C25_Witness ==
    /\ Part /\ PartOwner /\ response.code = 302
    /\ response.request[4] = "0"
    /\ PartJob.downloadUrls = <<ScenarioUrl>>
    /\ PartJob.downloadS3Keys = <<ScenarioRef>>
    /\ response.location.expiresIn = 3 * 24 * 60 * 60
    /\ response.location.disposition = "attachment; filename=\"x.zip\""
\* ------------------------------------------------- the conversion tasks
\* convert-files-to-pdf is converting a DOCX
ConvertingDocx ==
    HasFallback(conversion.kind) /\ conversion.contentType = DocxType

\* the task has ended
ConvertEnded == conversion.pc \in {"converted", "failed"}

\* C26: when the primary conversion of a DOCX fails, the sanitizer runs exactly
\* once and the conversion is retried exactly once in the whole task: two
\* conversion requests in all, whether the task ends converted or failed.
C26_SanitizeOnceRetryOnce ==
    (/\ conversion.kind = "files" /\ ConvertingDocx /\ ConvertEnded
     /\ conversion.primaryFailures >= 1) =>
        /\ conversion.allSanitized = 1
        /\ conversion.allRetries = 1
        /\ conversion.allRequests = 2

\* what holds of each run: the sanitizer runs at most once, and
\* only for a DOCX whose primary conversion failed; the conversion is retried
\* at most once, after the sanitizer; a failed retry makes the run throw and
\* the output of a successful one is the converted file; the runs of a task
\* are at most ConvertMaxAttempts, and so are its sanitizer passes and its
\* retries.
OncePerRun ==
    HasFallback(conversion.kind) =>
        /\ conversion.sanitized <= 1
        /\ conversion.retries <= conversion.sanitized
        /\ conversion.pc \in {"fetch_docx", "sanitize", "retry"} =>
              /\ ConvertingDocx
              /\ conversion.last \in {"4xx", "5xx", "unreachable"}
        /\ conversion.sanitized = 1 => ConvertingDocx
        /\ conversion.file = "retry" <=>
              (conversion.pc = "converted" /\ conversion.retries = 1)
        /\ (conversion.retries = 1 /\ conversion.last # "ok") =>
              conversion.pc \in {"thrown", "failed"}
        /\ conversion.kind = "files" => conversion.requests <= 2
        /\ conversion.attempt <= ConvertMaxAttempts
        /\ conversion.allSanitized <= conversion.attempt
        /\ conversion.allRetries <= conversion.attempt

\* C27: for a content type other than DOCX a failed primary conversion of
\* convert-files-to-pdf makes the run throw at once: the sanitizer never runs,
\* no request with a sanitized file is made, and the run makes no second
\* conversion request.
C27_FallbackDocxOnly ==
    (HasFallback(conversion.kind) /\ conversion.contentType # DocxType) =>
        /\ conversion.allSanitized = 0
        /\ conversion.allRetries = 0
        /\ conversion.pc \notin {"fetch_docx", "sanitize", "retry"}
        /\ conversion.file # "retry"
        /\ conversion.kind = "files" =>
              /\ conversion.requests <= 1
              /\ conversion.last \in {"4xx", "5xx", "unreachable"} =>
                    conversion.pc \in {"thrown", "failed"}

\* the conversion of a Word 97 document answered 5xx and the run threw
C27_Witness ==
    /\ conversion.kind = "files"
    /\ conversion.contentType = "application/msword"
    /\ conversion.last = "5xx"
    /\ conversion.pc = "thrown"
    /\ conversion.requests = 1

\* C28: the conversion call of the CAD and Keynote tasks is made again only
\* after a 5xx response, at most 3 times in all, after delays of 1 s and 2 s
\* (factor 2 from 1 s, never above 30 s, not randomized); a 4xx response ends
\* the call and the run throws, and so does a third 5xx.
C28_RetryOn5xxOnly ==
    conversion.kind \in {"cad", "keynote"} =>
        /\ conversion.calls <= 3
        /\ conversion.waits = SubSeq(<<1000, 2000>>, 1, Len(conversion.waits))
        /\ \A i \in 1..Len(conversion.waits) : conversion.waits[i] <= 30000
        /\ Len(conversion.waits) =
              IF conversion.pc = "primary" THEN conversion.calls
              ELSE conversion.calls - 1
        /\ (conversion.pc = "primary" /\ conversion.calls >= 1) =>
              conversion.last = "5xx"
        /\ conversion.last = "4xx" => conversion.pc \in {"thrown", "failed"}
        /\ (conversion.last = "5xx" /\ conversion.pc # "primary") =>
              /\ conversion.calls = 3
              /\ conversion.pc \in {"thrown", "failed"}
        /\ conversion.requests = conversion.calls

\* three 5xx responses to the CAD task: two waits, then the run throws
C28_Witness ==
    /\ conversion.kind = "cad"
    /\ conversion.calls = 3
    /\ conversion.waits = <<1000, 2000>>
    /\ conversion.last = "5xx"
    /\ conversion.pc = "thrown"
\* ------------------------------------------------------- the rejections
\* C29: a request the upload route answers with 400, 401, 403 or 404 creates
\* no document, dataroom document or DocumentUpload row and cancels or
\* schedules no notification run; a request the download-batch processor
\* answers with 405, 401 or 400 invokes no backend.
C29_RejectionsNoEffect ==
    [][/\ (response' # response /\ response'.op = "upload") =>
             /\ response'.code \in {400, 401, 403, 404}
             /\ uploads' = uploads
             /\ runs' = runs
             /\ posts' = posts
       /\ (/\ response' # response /\ response'.op = "batch"
           /\ response'.code \in {405, 401, 400}) =>
             /\ response'.invocations = 0
             /\ lambdaCalls' = lambdaCalls]_vars

\* a viewer with a pending notification run is refused on the link that has
\* uploads off
C29_Witness ==
    /\ response.op = "upload"
    /\ response.code = 403
    /\ response.request.linkId = "l3"
    /\ \E u \in UploadIds : uploads[u].viewerId = response.request.session
    /\ \E r \in RunIds : runs[r].status = "DELAYED"
\* ------------------------------------------------------ the error texts
\* C30: no answer of the jobs listing or of the part download holds the
\* backend's error message of a failed job or the message of an internal
\* error.
C30_NoInternalErrorText ==
    response.op \in {"list", "part"} =>
        /\ "details" \notin DOMAIN response
        /\ "jobs" \in DOMAIN response =>
              \A j \in DOMAIN response.jobs : response.jobs[j].error = ""

\* ------------------------------------------------- errors are not dropped
\* C31: the notification endpoint answers 200 only if the email was handed to
\* the mail sender without error, and answers a 5xx when the send fails.
C31_SuccessOnlyIfSent ==
    (response.op = "notify" /\ response.request.method = "POST"
       /\ AuthToken(response.request.authorization) = EnvInternalApiKey) =>
        /\ response.code = 200 => response.emails = 1
        /\ ~ response.mailOk => response.code >= 500

\* ------------------------------------------------------ the client poller
\* the interval of export i is running
Polling(m, i) == \E iv \in m.intervals : iv.id = i

\* the answers that end the polling
TerminalAnswer(ans) ==
    ans.ok /\ (ans.status = "FAILED" \/ (ans.status = "COMPLETED" /\ ans.isReady))

Reports(u) == { p \in 1..Len(posts) : u \in posts[p].documentNames }

\* every request has answered and no run is pending
AllSettled ==
    /\ \A u \in UploadIds : uploads[u].pc = "done"
    /\ \A r \in RunIds : ~ Live(r)

\* C33: when every request has answered and every run has fired or was
\* cancelled, with a scheduler and a sender that never fail, each upload is
\* listed in at least one notification sent.
C33_EveryUploadReported ==
    AllSettled => \A u \in UploadIds : Reports(u) # {}

\* C34: each upload is listed in at most one notification sent.
C34_NoUploadReportedTwice ==
    \A u \in UploadIds : Cardinality(Reports(u)) <= 1

\* ------------------------------------------------- the retries of the task
\* the requests run r has posted to the notification endpoint
PostsOf(r) == { p \in 1..Len(posts) : posts[p].run = r }

\* C35: a run posts at most one request to the notification endpoint over
\* all its attempts: an attempt that has posted ends the run, whether the
\* request got an OK response or not, and an attempt that throws has not
\* posted.
C35_OnePostPerRun ==
    \A r \in RunIds :
        /\ Cardinality(PostsOf(r)) <= 1
        /\ PostsOf(r) # {} =>
              /\ runs[r].status = "COMPLETED"
              /\ runs[r].outcome \in {"sent", "send_failed"}
        /\ runs[r].attempts <= MaxAttempts

\* a run whose request to the endpoint failed: it has posted once and it is
\* not retried
C35_Witness ==
    \E r \in RunIds :
        /\ runs[r].attempts = 1
        /\ runs[r].outcome = "send_failed"
        /\ runs[r].status = "COMPLETED"
        /\ Cardinality(PostsOf(r)) = 1

\* ------------------------------------------- requests without a token
\* C36: in every configuration of INTERNAL_API_KEY, a POST request to an
\* internal endpoint whose Authorization header is missing or has no token
\* part is answered 401, no email is sent and no backend is invoked.
C36_NoTokenNeverAuthorized ==
    (/\ response.op \in {"notify", "batch"}
     /\ response.request.method = "POST"
     /\ Len(response.request.authorization) < 2) =>
        /\ response.code = 401
        /\ response.emails = 0
        /\ response.invocations = 0

\* ------------------------------------------- the callbacks of the poller
\* C37: for each export the poll callbacks click the download link at most
\* once and call handleClose, and with it onClose, at most once.
C37_DownloadOnce ==
    \A i \in 1..MaxStarts :
        /\ modal.clicks[i] <= 1
        /\ modal.closes[i] <= 1

\* ----------------------------------------------- the timeouts left armed
\* C38: the timeout an export has armed stops the polling of that export
\* only and closes the modal of that export only.
C38_TimeoutOfOwnExport ==
    /\ \A i \in 1..MaxStarts :
          modal.stoppedBy[i].kind = "timeout" => modal.stoppedBy[i].run = i
    /\ (modal.lastClose.kind = "timeout" /\ modal.lastClose.victim # 0) =>
          modal.lastClose.victim = modal.lastClose.run

\* ------------------------------------------ the steps of a conversion task
\* C39: the document version is set to pdf only by the step that follows a
\* conversion that succeeded and a save that returned the file; pdf-to-image
\* is triggered only by the step that follows that update; every other step
\* leaves the version and the triggers as they are, and a run that ends at a
\* lookup, at a failed conversion, at a save that fails or returns no data,
\* or at a failed update has changed neither.
C39_StepsInOrder ==
    [][/\ conversion'.versionType # conversion.versionType =>
             /\ conversion.pc = "saved"
             /\ conversion.file # "none"
             /\ conversion.stored
             /\ conversion'.versionType = "pdf"
             /\ conversion'.pc = "updated"
       /\ conversion'.imageTriggers # conversion.imageTriggers =>
             /\ conversion.pc = "updated"
             /\ conversion.versionType = "pdf"
             /\ conversion'.imageTriggers = conversion.imageTriggers + 1
             /\ conversion'.pc = "done"
       /\ (/\ conversion'.pc \in {"returned", "thrown"}
           /\ conversion.pc # "updated") =>
             /\ conversion'.versionType = conversion.versionType
             /\ conversion'.imageTriggers = conversion.imageTriggers
             /\ conversion.attempt <= 1 => conversion'.versionType = "original"]_vars

\* a run went through the four steps after an earlier run of the task had
\* failed at the conversion
C39_Witness ==
    /\ conversion.pc = "done"
    /\ conversion.attempt = 2
    /\ conversion.versionType = "pdf"
    /\ conversion.imageTriggers = 1
====
